---- MODULE Spec2Model ----
(***************************************************************************)
(* Desktop Time Tracker: the tracking engine.                              *)
(*                                                                         *)
(*   TimeTracker      src/src/core/tracker.py                              *)
(*   IdleDetector     src/src/core/idle_detector.py                        *)
(*   ActivityMonitor  src/src/core/activity_monitor.py                     *)
(*   ScreenshotCapture src/src/core/screenshot.py                          *)
(*   MainWindow       src/src/ui/main_window.py   (the wiring)             *)
(*   DatabaseManager  src/src/database/db_manager.py (time_entries,        *)
(*                    screenshots)                                         *)
(*                                                                         *)
(* All handlers run on the one Qt event loop, so every handler is one      *)
(* atomic action; signal/slot connections are direct calls and are part    *)
(* of the emitting handler's action.                                       *)
(*                                                                         *)
(* Time: the wall clock `now` counts clock units; Res units make one       *)
(* second, so that int(timedelta.total_seconds()) truncates.               *)
(***************************************************************************)
EXTENDS Integers, Sequences, FiniteSets, TLC

VARIABLES
    \* ---- environment ----
    now,                \* wall clock, in clock units (Res per second)
    alive,              \* the process is running (FALSE after a crash / quit)
    n_fails,            \* persistence calls that have raised so far
    \* ---- DatabaseManager (persistent, survives a crash) ----
    time_entries,       \* rows of table time_entries
    screenshots,        \* rows of table screenshots
    db_seq,             \* AUTOINCREMENT counter of time_entries
    shot_seq,           \* AUTOINCREMENT counter of screenshots
    \* ---- TimeTracker ----
    state,              \* _state
    current_entry,      \* _current_entry: <<>> is None, <<e>> a TimeEntry
    start_time,         \* _start_time
    pause_time,         \* _pause_time
    paused_duration,    \* _paused_duration (seconds)
    elapsed_seconds,    \* _elapsed_seconds
    activity_samples,   \* _activity_samples
    timer,              \* _timer.isActive(), the 1-second tick
    \* ---- IdleDetector ----
    threshold_seconds,  \* _threshold_seconds
    is_enabled,         \* _is_enabled
    is_idle,            \* _is_idle
    was_notified,       \* _was_notified
    \* ---- ScreenshotCapture ----
    cap_is_running,     \* _is_running
    cap_start_time,     \* _start_time
    interval_seconds,   \* _interval_seconds
    current_activity,   \* _current_activity
    capture_timer,      \* _capture_timer: None when stopped, else the time it fires next
    retries,            \* pending QTimer.singleShot retries: the times they fire
    mss_available,      \* MSS_AVAILABLE: the capture library was imported
    app_focused,        \* the foreground window's title contains APP_WINDOW_TITLE
    \* ---- ActivityMonitor ----
    pynput_available,   \* PYNPUT_AVAILABLE: the input hooks were imported
    mon_is_running,     \* _is_running
    active_seconds_in_interval, \* _active_seconds_in_interval
    interval_start_time,        \* _interval_start_time
    continuous_idle_seconds,    \* _continuous_idle_seconds
    current_second_active,      \* _current_second_active
    last_second_check,  \* _last_second_check
    check_timer,        \* _check_timer: None when stopped, else the time it fires next
    \* ---- Config ----
    screenshots_enabled, \* config.screenshots_enabled
    \* ---- observation of the last handler ----
    op,                 \* name of the last handler that ran
    arg,                \* the number it was called with (0 when it takes none)
    result,             \* what it returned
    emitted,            \* the signals it emitted, in order
    \* ---- history of the session, for stating the properties ----
    true_paused,        \* exact length of the closed pauses of the session, clock units
    emissions,          \* the activity_updated signals the window received, in order
    ep_reached,         \* the idle episode (since the last report of 0) has reached the threshold
    ep_fired,           \* idle_threshold_reached emitted in this idle episode
    outstanding         \* idle_threshold_reached emitted minus activity_resumed emitted

envVars == <<now, alive, n_fails>>
dbVars == <<time_entries, screenshots, db_seq, shot_seq>>
trackerVars == <<state, current_entry, start_time, pause_time, paused_duration,
                 elapsed_seconds, activity_samples, timer>>
obsVars == <<op, arg, result, emitted>>
idleVars == <<threshold_seconds, is_enabled, is_idle, was_notified>>
capVars == <<cap_is_running, cap_start_time, interval_seconds, current_activity,
             capture_timer, retries, mss_available, app_focused>>
monVars == <<pynput_available, mon_is_running, active_seconds_in_interval,
             interval_start_time, continuous_idle_seconds, current_second_active,
             last_second_check, check_timer, screenshots_enabled>>
histVars == <<true_paused, emissions>>
idleHist == <<ep_reached, ep_fired, outstanding>>
vars == <<envVars, dbVars, trackerVars, idleVars, capVars, monVars, obsVars, histVars,
          idleHist>>

----------------------------------------------------------------------------
\* Bounds of the model.

\* clock units per second
Res == 2
\* last clock value at which the user presses a button while an interval of the
\* sampler is followed to its end
MaxUserAt == 4
\* last clock value of the tracker specification
MaxTime == 1
\* last clock value of the start/pause/resume/stop specification
MaxTimeOps == 5
\* rows ever inserted into time_entries
MaxEntries == 2
\* activity samples kept per session
MaxSamples == 1
\* persistence calls that raise
MaxFails == 1
\* step of the clock in the scheduler specification, seconds
ShotStep == 30
\* last clock value of the scheduler specification, seconds
MaxTimeShot == 240
\* idle threshold of the configuration file in the wired specification, seconds
WiredIdleThreshold == 1
\* last clock value of the wired specification while the sampler ticks, seconds
MaxTimeWired == 3
\* sessions started in the wired specification
MaxSessions == 1
\* last clock value of the wired specification with the fallback sampler, seconds
MaxTimeFallback == 180
MaxShots == 2
MaxEmissions == 2
MaxOverrun == 1
MaxResetAt == 1
MaxGap == 0

\* Python's None for the Optional[int] / Optional[datetime] fields
None == -1

\* Config.DEFAULTS['screenshot_interval']
DefaultScreenshotInterval == 600
\* ScreenshotCapture.STARTUP_DELAY
STARTUP_DELAY == 60
\* ScreenshotCapture.RETRY_DELAY
RETRY_DELAY == 120

\* Config.DEFAULTS['idle_threshold']
DefaultIdleThreshold == 300

\* MainWindow.__init__: create_activity_monitor(sample_interval=60)
sample_interval == 60

\* A percentage p is held as the integer p * sample_interval, which is exact
\* for every value the sampler computes (100 * seconds / sample_interval).
Pct(p) == p * sample_interval

Tasks == {1}

----------------------------------------------------------------------------
\* Helpers

\* int(timedelta.total_seconds()): truncation toward zero
IntSeconds(d) == IF d >= 0 THEN d \div Res ELSE -((-d) \div Res)

Max(a, b) == IF a >= b THEN a ELSE b

RECURSIVE SumSeq(_)
SumSeq(s) == IF s = <<>> THEN 0 ELSE Head(s) + SumSeq(Tail(s))

\* sum(samples) / len(samples) as the exact fraction <<numerator, denominator>>;
\* 0.0 with no samples
AvgActivity(samples) ==
    IF samples # <<>> THEN <<SumSeq(samples), Len(samples)>> ELSE <<0, 1>>

\* TrackerState(Enum): auto() numbers the members 1, 2, 3
StateCode(s) == CASE s = "STOPPED" -> 1 [] s = "RUNNING" -> 2 [] s = "PAUSED" -> 3

Ev(sig, a) == [sig |-> sig, arg |-> a]

\* TimeEntry dataclass (notes and created_at carry no behaviour and are left out)
TimeEntry(id, task_id, st, et, dur, act, manual) ==
    [id |-> id, task_id |-> task_id, start_time |-> st, end_time |-> et,
     duration_seconds |-> dur, activity_percentage |-> act, is_manual |-> manual]

----------------------------------------------------------------------------
\* DatabaseManager

\* get_active_time_entry: WHERE end_time IS NULL ORDER BY start_time DESC LIMIT 1
ActiveCandidates ==
    {e \in time_entries :
        /\ e.end_time = None
        /\ \A f \in time_entries : f.end_time = None => f.start_time <= e.start_time}

\* add_time_entry: INSERT, the row id comes from the AUTOINCREMENT sequence
DbAddTimeEntry(e) ==
    /\ db_seq' = db_seq + 1
    /\ time_entries' = time_entries \cup {[e EXCEPT !.id = db_seq + 1]}

\* update_time_entry: UPDATE ... WHERE id = ?
DbUpdateTimeEntry(e) ==
    /\ time_entries' = {IF r.id = e.id THEN e ELSE r : r \in time_entries}
    /\ UNCHANGED db_seq

\* delete_time_entry: the screenshots of the entry, then the entry
DbDeleteTimeEntry_KeepShots(id) ==
    /\ time_entries' = {r \in time_entries : r.id # id}
    /\ UNCHANGED <<screenshots, db_seq, shot_seq>>

DbDeleteTimeEntry(id) ==
    /\ screenshots' = {s \in screenshots : s.time_entry_id # id}
    /\ time_entries' = {r \in time_entries : r.id # id}
    /\ UNCHANGED <<db_seq, shot_seq>>

----------------------------------------------------------------------------
\* Return values of the handlers

RetTrue == [kind |-> "bool", val |-> 1]
RetFalse == [kind |-> "bool", val |-> 0]
RetNone == [kind |-> "None", val |-> 0]
RetRaised == [kind |-> "raised", val |-> 0]
RetId(i) == [kind |-> "id", val |-> i]

\* a persistence call raises only while the budget of failures lasts
Failing(fail, raised) ==
    /\ fail => n_fails < MaxFails
    /\ n_fails' = IF raised THEN n_fails + 1 ELSE n_fails
    /\ UNCHANGED <<now, alive>>

ObserveArg(name, a, ret, evs) ==
    /\ op' = name
    /\ arg' = a
    /\ result' = ret
    /\ emitted' = evs

Observe(name, ret, evs) == ObserveArg(name, 0, ret, evs)

\* the components a handler of the tracker alone does not touch
TrackerOnly == UNCHANGED <<idleVars, idleHist, capVars, monVars>>

----------------------------------------------------------------------------
\* TimeTracker

\* __init__ before _recover_active_entry
TrackerFields(st, ce, t0, pt, pd, el, smp, tm) ==
    /\ state' = st
    /\ current_entry' = ce
    /\ start_time' = t0
    /\ pause_time' = pt
    /\ paused_duration' = pd
    /\ elapsed_seconds' = el
    /\ activity_samples' = smp
    /\ timer' = tm

\* start(): "if self._state == TrackerState.RUNNING: return False"
StartRejected_NoGuard == FALSE
StartRejected == state = "RUNNING"

\* pause(): "if self._state != TrackerState.RUNNING: return False"
PauseRejected_NoGuard == FALSE
PauseRejected == state # "RUNNING"

\* resume(): "if self._state != TrackerState.PAUSED: return False"
ResumeRejected_NoGuard == FALSE
ResumeRejected == state # "PAUSED"

\* stop() / discard(): "if self._state == TrackerState.STOPPED: return"
StopRejected == state = "STOPPED"

\* the resume arithmetic, shared by start() while PAUSED and resume():
\* self._paused_duration += int((datetime.now() - self._pause_time).total_seconds())
ResumedPausedDuration == paused_duration + IntSeconds(now - pause_time)

\* the entry start() builds: TimeEntry(task_id=task_id, start_time=self._start_time)
NewEntry(task_id) == TimeEntry(None, task_id, now, None, 0, <<0, 1>>, FALSE)

\* start(task_id) if its resume branch took the task of the call
TrackerStart_Retasks(task_id, fail) ==
    IF StartRejected THEN
        UNCHANGED <<trackerVars, dbVars>>
    ELSE IF state = "PAUSED" THEN
        /\ TrackerFields("RUNNING", <<[current_entry[1] EXCEPT !.task_id = task_id]>>,
                         start_time, None, ResumedPausedDuration, elapsed_seconds,
                         activity_samples, TRUE)
        /\ UNCHANGED dbVars
    ELSE IF fail THEN
        /\ TrackerFields(state, <<NewEntry(task_id)>>, now, None, 0, 0, <<>>, timer)
        /\ UNCHANGED dbVars
    ELSE
        /\ DbAddTimeEntry(NewEntry(task_id))
        /\ UNCHANGED <<screenshots, shot_seq>>
        /\ TrackerFields("RUNNING", <<[NewEntry(task_id) EXCEPT !.id = db_seq + 1]>>,
                         now, None, 0, 0, <<>>, TRUE)

\* start(task_id); fail: add_time_entry raises
TrackerStart(task_id, fail) ==
    IF StartRejected THEN
        UNCHANGED <<trackerVars, dbVars>>
    ELSE IF state = "PAUSED" THEN
        /\ TrackerFields("RUNNING", current_entry, start_time, None,
                         ResumedPausedDuration, elapsed_seconds,
                         activity_samples, TRUE)
        /\ UNCHANGED dbVars
    ELSE IF fail THEN
        \* the fields are reset and the entry object built before the insert raises
        /\ TrackerFields(state, <<NewEntry(task_id)>>, now, None, 0, 0, <<>>, timer)
        /\ UNCHANGED dbVars
    ELSE
        /\ DbAddTimeEntry(NewEntry(task_id))
        /\ UNCHANGED <<screenshots, shot_seq>>
        /\ TrackerFields("RUNNING", <<[NewEntry(task_id) EXCEPT !.id = db_seq + 1]>>,
                         now, None, 0, 0, <<>>, TRUE)

StartEmits(fail) ==
    IF StartRejected THEN <<>>
    ELSE IF state = "PAUSED" THEN <<Ev("state_changed", StateCode("RUNNING"))>>
    ELSE IF fail THEN <<>>
    ELSE <<Ev("state_changed", StateCode("RUNNING")), Ev("time_updated", 0)>>

StartReturns(fail) ==
    IF StartRejected THEN RetFalse
    ELSE IF state = "PAUSED" THEN RetTrue
    ELSE IF fail THEN RetRaised
    ELSE RetTrue

\* pause(), the samples being smp when it is called (a callback that has
\* called add_activity_sample() before)
TrackerPauseWith(smp) ==
    IF PauseRejected THEN
        TrackerFields(state, current_entry, start_time, pause_time, paused_duration,
                      elapsed_seconds, smp, timer)
    ELSE
        TrackerFields("PAUSED", current_entry, start_time, now, paused_duration,
                      elapsed_seconds, smp, FALSE)

\* pause()
TrackerPause == TrackerPauseWith(activity_samples)

PauseEmits == IF PauseRejected THEN <<>> ELSE <<Ev("state_changed", StateCode("PAUSED"))>>

PauseReturns == IF PauseRejected THEN RetFalse ELSE RetTrue

\* resume()
TrackerResume ==
    IF ResumeRejected THEN
        UNCHANGED trackerVars
    ELSE
        TrackerFields("RUNNING", current_entry, start_time, None,
                      ResumedPausedDuration, elapsed_seconds, activity_samples, TRUE)

ResumeEmits == IF ResumeRejected THEN <<>> ELSE <<Ev("state_changed", StateCode("RUNNING"))>>

ResumeReturns == IF ResumeRejected THEN RetFalse ELSE RetTrue

\* stop(): the paused duration once an open pause is closed at end_time = now
StopPausedDuration ==
    IF pause_time # None
    THEN paused_duration + IntSeconds(now - pause_time)
    ELSE paused_duration

\* stop(): active_seconds = total_seconds - self._paused_duration
StopActiveSeconds == IntSeconds(now - start_time) - StopPausedDuration

\* stop(): the entry as updated in memory before update_time_entry
StopEntry ==
    [current_entry[1] EXCEPT
        !.end_time = now,
        !.duration_seconds = Max(0, StopActiveSeconds),
        !.activity_percentage = AvgActivity(activity_samples)]

TrackerStop_ResetsOnFailure(fail) ==
    IF StopRejected THEN
        UNCHANGED <<trackerVars, dbVars>>
    ELSE
        /\ IF fail THEN UNCHANGED <<time_entries, db_seq>> ELSE DbUpdateTimeEntry(StopEntry)
        /\ UNCHANGED <<screenshots, shot_seq>>
        /\ TrackerFields("STOPPED", <<>>, None, None, 0, 0, <<>>, FALSE)

\* stop(notes); fail: update_time_entry raises
TrackerStop(fail) ==
    IF StopRejected THEN
        UNCHANGED <<trackerVars, dbVars>>
    ELSE IF fail THEN
        \* the tick is stopped, the pause closed and the entry object written
        \* before the update raises; nothing after it runs
        /\ TrackerFields(state, <<StopEntry>>, start_time, pause_time,
                         StopPausedDuration, elapsed_seconds, activity_samples, FALSE)
        /\ UNCHANGED dbVars
    ELSE
        /\ DbUpdateTimeEntry(StopEntry)
        /\ UNCHANGED <<screenshots, shot_seq>>
        /\ TrackerFields("STOPPED", <<>>, None, None, 0, 0, <<>>, FALSE)

\* the signals of stop() if they were emitted before the update
StopEmits_BeforeUpdate(fail) ==
    IF StopRejected THEN <<>>
    ELSE <<Ev("state_changed", StateCode("STOPPED")),
           Ev("entry_saved", current_entry[1].id)>>

StopEmits(fail) ==
    IF StopRejected \/ fail THEN <<>>
    ELSE <<Ev("state_changed", StateCode("STOPPED")),
           Ev("entry_saved", current_entry[1].id)>>

StopReturns(fail) ==
    IF StopRejected THEN RetNone
    ELSE IF fail THEN RetRaised
    ELSE RetId(current_entry[1].id)

\* discard(): "if self._current_entry and self._current_entry.id"
DiscardDeletes == current_entry # <<>> /\ current_entry[1].id # None

\* discard(); fail: delete_time_entry raises
TrackerDiscard(fail) ==
    IF StopRejected THEN
        UNCHANGED <<trackerVars, dbVars>>
    ELSE IF DiscardDeletes /\ fail THEN
        /\ TrackerFields(state, current_entry, start_time, pause_time,
                         paused_duration, elapsed_seconds, activity_samples, FALSE)
        /\ UNCHANGED dbVars
    ELSE
        /\ IF DiscardDeletes
           THEN DbDeleteTimeEntry(current_entry[1].id)
           ELSE UNCHANGED dbVars
        /\ TrackerFields("STOPPED", <<>>, None, None, 0, 0, <<>>, FALSE)

DiscardEmits(fail) ==
    IF StopRejected \/ (DiscardDeletes /\ fail) THEN <<>>
    ELSE <<Ev("state_changed", StateCode("STOPPED"))>>

DiscardReturns(fail) ==
    IF ~StopRejected /\ DiscardDeletes /\ fail THEN RetRaised ELSE RetNone

\* add_activity_sample(percentage)
TrackerAddActivitySample(percentage) ==
    /\ activity_samples' = Append(activity_samples, percentage)
    /\ UNCHANGED <<state, current_entry, start_time, pause_time, paused_duration,
                   elapsed_seconds, timer>>

\* _on_timer_tick()
TickElapsed == IntSeconds(now - start_time) - paused_duration

TrackerTick ==
    IF start_time # None THEN
        /\ elapsed_seconds' = TickElapsed
        /\ UNCHANGED <<state, current_entry, start_time, pause_time, paused_duration,
                       activity_samples, timer>>
    ELSE
        UNCHANGED trackerVars

TickEmits == IF start_time # None THEN <<Ev("time_updated", TickElapsed)>> ELSE <<>>

\* _recover_active_entry(), run by __init__ on the fields __init__ has just set
RecoverAdopts_Never == {}
RecoverAdopts == ActiveCandidates

TrackerConstruct_ElapsedZero(active) ==
    IF active = <<>> THEN
        TrackerFields("STOPPED", <<>>, None, None, 0, 0, <<>>, FALSE)
    ELSE
        TrackerFields("RUNNING", active, active[1].start_time, None, 0, 0, <<>>, TRUE)

TrackerConstruct(active) ==
    IF active = <<>> THEN
        TrackerFields("STOPPED", <<>>, None, None, 0, 0, <<>>, FALSE)
    ELSE
        TrackerFields("RUNNING", active, active[1].start_time, None, 0,
                      IntSeconds(now - active[1].start_time), <<>>, TRUE)

ConstructEmits(active) ==
    IF active = <<>> THEN <<>>
    ELSE <<Ev("state_changed", StateCode("RUNNING")),
           Ev("time_updated", IntSeconds(now - active[1].start_time))>>

----------------------------------------------------------------------------
\* History of the session

\* a pause of the session ends (resume(), or start() while PAUSED)
HistResume == true_paused' = true_paused + (now - pause_time) /\ UNCHANGED emissions

\* a session begins (start() while STOPPED, or crash recovery)
HistBegin == true_paused' = 0 /\ UNCHANGED emissions

----------------------------------------------------------------------------
\* The tracker driven through its public methods

Start(task_id, fail) ==
    /\ alive
    /\ TrackerOnly
    /\ (state = "STOPPED" /\ ~fail) => db_seq < MaxEntries
    /\ TrackerStart(task_id, fail)
    /\ Observe("start", StartReturns(fail), StartEmits(fail))
    /\ IF StartReturns(fail) # RetTrue THEN UNCHANGED histVars
       ELSE IF state = "PAUSED" THEN HistResume ELSE HistBegin
    /\ Failing(fail, StartReturns(fail) = RetRaised)

Pause ==
    /\ alive
    /\ TrackerOnly
    /\ TrackerPause
    /\ Observe("pause", PauseReturns, PauseEmits)
    /\ UNCHANGED <<envVars, dbVars, histVars>>

Resume ==
    /\ alive
    /\ TrackerOnly
    /\ TrackerResume
    /\ Observe("resume", ResumeReturns, ResumeEmits)
    /\ IF ResumeReturns = RetTrue THEN HistResume ELSE UNCHANGED histVars
    /\ UNCHANGED <<envVars, dbVars>>

Stop(fail) ==
    /\ alive
    /\ TrackerOnly
    /\ TrackerStop(fail)
    /\ Observe("stop", StopReturns(fail), StopEmits(fail))
    /\ UNCHANGED histVars
    /\ Failing(fail, StopReturns(fail) = RetRaised)

Discard(fail) ==
    /\ alive
    /\ TrackerOnly
    /\ TrackerDiscard(fail)
    /\ Observe("discard", DiscardReturns(fail), DiscardEmits(fail))
    /\ Failing(fail, DiscardReturns(fail) = RetRaised)
    /\ UNCHANGED histVars

AddActivitySample(percentage) ==
    /\ alive
    /\ TrackerOnly
    /\ Len(activity_samples) < MaxSamples
    /\ TrackerAddActivitySample(percentage)
    /\ Observe("add_activity_sample", RetNone, <<>>)
    /\ UNCHANGED <<envVars, dbVars, histVars>>

\* the 1-second QTimer of the tracker fires
Tick ==
    /\ alive
    /\ TrackerOnly
    /\ timer
    /\ TrackerTick
    /\ Observe("tick", RetNone, TickEmits)
    /\ UNCHANGED <<envVars, dbVars, histVars>>

\* MainWindow._on_manual_entry: a finished entry typed in by the user;
\* fail: add_time_entry raises and the handler shows a warning
ManualEntry(task_id, st, minutes, fail) ==
    /\ alive
    /\ TrackerOnly
    /\ ~fail => db_seq < MaxEntries
    /\ IF fail
       THEN UNCHANGED dbVars
       ELSE /\ DbAddTimeEntry(TimeEntry(None, task_id, st, st + minutes * 60 * Res,
                                        minutes * 60, <<Pct(100), 1>>, TRUE))
            /\ UNCHANGED <<screenshots, shot_seq>>
    /\ Observe("manual_entry", RetNone, <<>>)
    /\ Failing(fail, fail)
    /\ UNCHANGED <<trackerVars, histVars>>

\* the process dies (crash, kill, or quit without saving): memory is lost,
\* the database stays
Crash ==
    /\ alive
    /\ TrackerOnly
    /\ alive' = FALSE
    /\ TrackerFields("STOPPED", <<>>, None, None, 0, 0, <<>>, FALSE)
    /\ Observe("crash", RetNone, <<>>)
    /\ UNCHANGED <<now, n_fails, dbVars, histVars>>

\* the process starts: TimeTracker.__init__ with crash recovery
Launch ==
    /\ ~alive
    /\ TrackerOnly
    /\ alive' = TRUE
    /\ \E active \in (IF RecoverAdopts = {} THEN {<<>>} ELSE {<<e>> : e \in RecoverAdopts}) :
        /\ TrackerConstruct(active)
        /\ Observe("launch", RetNone, ConstructEmits(active))
        /\ IF active # <<>> THEN HistBegin ELSE UNCHANGED histVars
    /\ UNCHANGED <<now, n_fails, dbVars>>

\* the times at which the armed timers fire
Deadlines ==
    (IF capture_timer # None THEN {capture_timer} ELSE {})
        \cup retries
        \cup (IF check_timer # None THEN {check_timer} ELSE {})

\* the wall clock advances by d clock units, but not past the bound nor past
\* the next timer: the event loop runs a timer when it is due
Advance(d, bound) ==
    /\ now < bound
    /\ \A t \in Deadlines : t > now
    /\ now' = CHOOSE m \in {now + d, bound} \cup Deadlines :
                  \A t \in {now + d, bound} \cup Deadlines : m <= t
    /\ UNCHANGED <<alive, n_fails, dbVars, trackerVars, idleVars, capVars, monVars, obsVars,
                   histVars, idleHist>>

----------------------------------------------------------------------------
\* State after construction on a fresh database

InitEnv ==
    /\ now = 0
    /\ alive = TRUE
    /\ n_fails = 0

\* DatabaseManager._init_database on a new file
InitDb ==
    /\ time_entries = {}
    /\ screenshots = {}
    /\ db_seq = 0
    /\ shot_seq = 0

\* TimeTracker.__init__ with nothing to recover
InitTracker ==
    /\ state = "STOPPED"
    /\ current_entry = <<>>
    /\ start_time = None
    /\ pause_time = None
    /\ paused_duration = 0
    /\ elapsed_seconds = 0
    /\ activity_samples = <<>>
    /\ timer = FALSE

\* IdleDetector.__init__(threshold_seconds): the value is stored as given
InitIdle(threshold) ==
    /\ threshold_seconds = threshold
    /\ is_enabled = TRUE
    /\ is_idle = FALSE
    /\ was_notified = FALSE

\* ScreenshotCapture.__init__(screenshots_dir, interval_seconds, quality):
\* the interval is stored as given
InitCap(interval, mss) ==
    /\ cap_is_running = FALSE
    /\ cap_start_time = None
    /\ interval_seconds = interval
    /\ current_activity = 0
    /\ capture_timer = None
    /\ retries = {}
    /\ mss_available = mss
    /\ app_focused = FALSE

\* ActivityMonitor.__init__, not started; enabled: config.screenshots_enabled
InitMon(pynput, enabled) ==
    /\ pynput_available = pynput
    /\ mon_is_running = FALSE
    /\ active_seconds_in_interval = 0
    /\ interval_start_time = None
    /\ continuous_idle_seconds = 0
    /\ current_second_active = FALSE
    /\ last_second_check = 0
    /\ check_timer = None
    /\ screenshots_enabled = enabled

InitObs ==
    /\ op = "init"
    /\ arg = 0
    /\ result = RetNone
    /\ emitted = <<>>
    /\ true_paused = 0
    /\ emissions = <<>>
    /\ ep_reached = FALSE
    /\ ep_fired = 0
    /\ outstanding = 0

Init ==
    /\ InitEnv
    /\ InitDb
    /\ InitTracker
    /\ InitIdle(DefaultIdleThreshold)
    /\ InitCap(DefaultScreenshotInterval, TRUE)
    /\ InitMon(TRUE, TRUE)
    /\ InitObs

\* The tracker with its persistence store: every public method, the tick,
\* persistence failures, manual entries, crash and restart.
Next ==
    \/ \E t \in Tasks, f \in BOOLEAN : Start(t, f)
    \/ Pause
    \/ Resume
    \/ \E f \in BOOLEAN : Stop(f)
    \/ \E f \in BOOLEAN : Discard(f)
    \/ AddActivitySample(Pct(100))
    \/ Tick
    \/ \E t \in Tasks, f \in BOOLEAN : ManualEntry(t, 0, 1, f)
    \/ Crash
    \/ Launch
    \/ Advance(1, MaxTime)

Spec == Init /\ [][Next]_vars

\* The tracker through start/pause/resume/stop alone, with no failure.
NextOps ==
    \/ \E t \in Tasks : Start(t, FALSE)
    \/ Pause
    \/ Resume
    \/ Stop(FALSE)
    \/ Advance(1, MaxTimeOps)

SpecOps == Init /\ [][NextOps]_vars

----------------------------------------------------------------------------
\* Properties of the tracker and its persistence store

OpenEntries == {e \in time_entries : e.end_time = None}

Abs(x) == IF x >= 0 THEN x ELSE -x

\* C1: after any sequence of start/pause/resume/stop/discard calls, manual
\* entries, persistence failures and crash-and-restart, the store holds at
\* most one time entry whose end_time is NULL.
C1_AtMostOneOpenSession == Cardinality(OpenEntries) <= 1

\* a session adopted by crash recovery is the one open entry, next to a
\* manual entry and after a persistence failure
C1_Witness ==
    /\ op = "launch"
    /\ state = "RUNNING"
    /\ Cardinality(OpenEntries) = 1
    /\ n_fails > 0
    /\ \E e \in time_entries : e.is_manual

\* C2: the duration written at stop equals the wall-clock span from start to
\* stop minus the sum of all paused intervals, within 1 second.
\* (paused intervals exact, in clock units; the duration in seconds)
C2_DurationWithinOneSecond ==
    [][(state # "STOPPED" /\ Stop(FALSE)) =>
        \A e \in time_entries' :
            e.id = result'.val =>
                Abs(e.duration_seconds * Res
                    - ((now - start_time) - true_paused
                       - (IF pause_time # None THEN now - pause_time ELSE 0))) <= Res]_vars

\* C3: start(task_id) while RUNNING returns False and changes nothing: state,
\* start time, paused duration, samples, current entry and the store are
\* unchanged and no signal is emitted.
C3_StartWhileRunningRejected ==
    [][\A t \in Tasks, f \in BOOLEAN :
        (state = "RUNNING" /\ Start(t, f)) =>
            /\ result' = RetFalse
            /\ emitted' = <<>>
            /\ UNCHANGED <<trackerVars, dbVars>>]_vars

C3_Witness == op = "start" /\ result = RetFalse /\ state = "RUNNING" /\ time_entries # {}

\* C4: pause() outside RUNNING, resume() outside PAUSED and stop() while
\* STOPPED return False / None, raise nothing, emit nothing and leave the
\* tracker (state, accumulators, tick timer) and the store unchanged.
C4_InvalidCallsRejected ==
    [][/\ (state # "RUNNING" /\ Pause) => result' = RetFalse
       /\ (state # "PAUSED" /\ Resume) => result' = RetFalse
       /\ \A f \in BOOLEAN : (state = "STOPPED" /\ Stop(f)) => result' = RetNone
       /\ (\/ state # "RUNNING" /\ Pause
           \/ state # "PAUSED" /\ Resume
           \/ \E f \in BOOLEAN : state = "STOPPED" /\ Stop(f)) =>
              /\ emitted' = <<>>
              /\ UNCHANGED <<trackerVars, dbVars>>]_vars

C4_Witness == op = "pause" /\ result = RetFalse /\ state = "PAUSED" /\ pause_time # None

\* C5: every change of the tracker state is STOPPED->RUNNING, RUNNING->PAUSED,
\* PAUSED->RUNNING, RUNNING->STOPPED or PAUSED->STOPPED; never STOPPED->PAUSED.
C5_AllowedTransitions ==
    [][state' # state =>
        <<state, state'>> \in {<<"STOPPED", "RUNNING">>, <<"RUNNING", "PAUSED">>,
                              <<"PAUSED", "RUNNING">>, <<"RUNNING", "STOPPED">>,
                              <<"PAUSED", "STOPPED">>}]_vars

C5_Witness == op = "stop" /\ result.kind = "id" /\ state = "STOPPED" /\ true_paused > 0

----------------------------------------------------------------------------
\* IdleDetector

Min(a, b) == IF a <= b THEN a ELSE b

\* on_idle_detected: "if idle_seconds >= self._threshold_seconds: if not self._was_notified"
ThresholdFires_NoHysteresis(idle_seconds) == is_enabled /\ idle_seconds >= threshold_seconds
ThresholdFires(idle_seconds) ==
    is_enabled /\ idle_seconds >= threshold_seconds /\ ~was_notified

\* on_idle_detected: "else: if self._was_notified and idle_seconds == 0"
ResumeFires_AnyDecay(idle_seconds) ==
    is_enabled /\ idle_seconds < threshold_seconds /\ was_notified
ResumeFires(idle_seconds) ==
    is_enabled /\ idle_seconds < threshold_seconds /\ was_notified /\ idle_seconds = 0

\* on_idle_detected(idle_seconds)
IdleOnIdleDetected(idle_seconds) ==
    IF ThresholdFires(idle_seconds) THEN
        /\ is_idle' = TRUE
        /\ was_notified' = TRUE
        /\ UNCHANGED <<threshold_seconds, is_enabled>>
    ELSE IF ResumeFires(idle_seconds) THEN
        /\ is_idle' = FALSE
        /\ was_notified' = FALSE
        /\ UNCHANGED <<threshold_seconds, is_enabled>>
    ELSE
        UNCHANGED idleVars

IdleEmits(idle_seconds) ==
    IF ThresholdFires(idle_seconds) THEN <<Ev("idle_threshold_reached", 0)>>
    ELSE IF ResumeFires(idle_seconds) THEN <<Ev("activity_resumed", 0)>>
    ELSE <<>>

\* threshold_seconds setter: max(60, value)
IdleSetThreshold(value) ==
    /\ threshold_seconds' = Max(60, value)
    /\ UNCHANGED <<is_enabled, is_idle, was_notified>>

\* History of the idle episodes: an episode runs from one report of 0 idle
\* seconds (input was seen) to the next
IdleHistory(idle_seconds) ==
    /\ ep_reached' = IF ~is_enabled THEN ep_reached
                     ELSE \/ (idle_seconds # 0 /\ ep_reached)
                          \/ idle_seconds >= threshold_seconds
    /\ ep_fired' = IF ~is_enabled THEN ep_fired
                   ELSE Min(2, (IF idle_seconds = 0 THEN 0 ELSE ep_fired)
                               + (IF ThresholdFires(idle_seconds) THEN 1 ELSE 0))
    /\ outstanding' = Max(-1, Min(2, outstanding
                                     + (IF ThresholdFires(idle_seconds) THEN 1 ELSE 0)
                                     - (IF ~ThresholdFires(idle_seconds)
                                           /\ ResumeFires(idle_seconds) THEN 1 ELSE 0)))

\* The detector on its own: the components it does not touch
IdleOnly == UNCHANGED <<envVars, dbVars, trackerVars, histVars, capVars, monVars>>

\* on_idle_detected(n) called by the owner of the detector
OnIdleDetected(idle_seconds) ==
    /\ IdleOnIdleDetected(idle_seconds)
    /\ IdleHistory(idle_seconds)
    /\ ObserveArg("on_idle_detected", idle_seconds, RetNone, IdleEmits(idle_seconds))
    /\ IdleOnly

\* idle_detector.threshold_seconds = value
SetThreshold(value) ==
    /\ IdleSetThreshold(value)
    /\ ObserveArg("set_threshold", value, RetNone, <<>>)
    /\ UNCHANGED idleHist
    /\ IdleOnly

\* thresholds the detector is constructed with
ConfigIdleThresholds == {60, DefaultIdleThreshold, 900}
\* values given to the threshold setter
ThresholdUpdates == {30, 120, 600}
\* idle seconds reported to the detector
IdleInputs == {0, 1, 59, 60, 61, 119, 120, 299, 300, 599, 600, 899, 900}

InitIdleSpec ==
    /\ InitEnv
    /\ InitDb
    /\ InitTracker
    /\ \E th \in ConfigIdleThresholds : InitIdle(th)
    /\ InitCap(DefaultScreenshotInterval, TRUE)
    /\ InitMon(TRUE, TRUE)
    /\ InitObs

NextIdle ==
    \/ \E n \in IdleInputs : OnIdleDetected(n)
    \/ \E v \in ThresholdUpdates : SetThreshold(v)

\* The enabled idle detector fed any sequence of idle-second reports and
\* threshold updates.
SpecIdle == InitIdleSpec /\ [][NextIdle]_vars

\* C6: idle_threshold_reached is emitted exactly once per idle episode that
\* reaches the threshold (an episode runs from one report of 0 to the next):
\* the first n >= threshold emits it, further n >= threshold emit nothing.
C6_ThresholdOncePerEpisode == ep_fired = (IF ep_reached THEN 1 ELSE 0)

\* a second report at or above the threshold in an episode that has fired
C6_Witness ==
    /\ op = "on_idle_detected"
    /\ arg >= threshold_seconds
    /\ emitted = <<>>
    /\ ep_reached
    /\ ep_fired = 1
    /\ was_notified

\* C7: activity_resumed is emitted exactly once per notified episode and only
\* on on_idle_detected(0) after idle_threshold_reached; a value n with
\* 0 < n < threshold never emits it and never clears the notified flag.
C7_ResumedOnlyOnZero ==
    /\ [](outstanding = (IF was_notified THEN 1 ELSE 0))
    /\ [][\A n \in IdleInputs :
            OnIdleDetected(n) =>
                /\ (Ev("activity_resumed", 0) \in {emitted'[i] : i \in DOMAIN emitted'})
                       <=> (n = 0 /\ was_notified)
                /\ (0 < n /\ n < threshold_seconds) =>
                       (emitted' = <<>> /\ was_notified' = was_notified)]_vars

\* activity_resumed has just been emitted for a notified episode
C7_Witness ==
    /\ op = "on_idle_detected"
    /\ arg = 0
    /\ emitted = <<Ev("activity_resumed", 0)>>
    /\ ~was_notified
    /\ outstanding = 0

----------------------------------------------------------------------------
\* ScreenshotCapture

CapFieldsWith(run, st, tm, rt, act) ==
    /\ cap_is_running' = run
    /\ cap_start_time' = st
    /\ capture_timer' = tm
    /\ retries' = rt
    /\ current_activity' = act
    /\ UNCHANGED <<interval_seconds, mss_available, app_focused>>

CapFields(run, st, tm, rt) == CapFieldsWith(run, st, tm, rt, current_activity)

\* _capture_timer.start(): the timer fires one interval from now
TimerArmed == now + interval_seconds * Res

\* start() without its early return
CapStart_Rearms == CapFields(TRUE, now, TimerArmed, retries)

\* start()
CapStart ==
    IF cap_is_running THEN UNCHANGED capVars
    ELSE CapFields(TRUE, now, TimerArmed, retries)

\* stop(), the activity being act when it is called (a callback that has
\* called set_activity_percentage() before); the interval timer is stopped,
\* a pending singleShot is not
CapStopWith(act) ==
    IF ~cap_is_running
    THEN CapFieldsWith(cap_is_running, cap_start_time, capture_timer, retries, act)
    ELSE CapFieldsWith(FALSE, cap_start_time, None, retries, act)

\* stop()
CapStop == CapStopWith(current_activity)

\* interval_seconds setter: max(60, value); setInterval restarts an active
\* timer and leaves a stopped one (a retry is pending) stopped
CapSetInterval(value) ==
    /\ interval_seconds' = Max(60, value)
    /\ capture_timer' = IF cap_is_running /\ capture_timer # None
                        THEN now + Max(60, value) * Res
                        ELSE capture_timer
    /\ UNCHANGED <<cap_is_running, cap_start_time, current_activity, retries,
                   mss_available, app_focused>>

\* _should_skip_capture(): the reason, "" for None
SkipReason_NoStartup ==
    IF app_focused THEN "timer app is active window" ELSE ""

SkipReason_FocusFirst ==
    IF app_focused THEN "timer app is active window"
    ELSE IF cap_start_time # None /\ now - cap_start_time < STARTUP_DELAY * Res
    THEN "startup delay"
    ELSE ""

SkipReason ==
    IF cap_start_time # None /\ now - cap_start_time < STARTUP_DELAY * Res
    THEN "startup delay"
    ELSE IF app_focused THEN "timer app is active window"
    ELSE ""

\* int(self.STARTUP_DELAY - elapsed) of the skip reason
StartupRemaining == IntSeconds(STARTUP_DELAY * Res - (now - cap_start_time))

\* capture_now(); ok: grabbing, encoding and writing raise nothing
CaptureOutcome(ok) ==
    IF ~mss_available THEN "error"
    ELSE IF SkipReason # "" THEN "skipped"
    ELSE IF ok THEN "taken"
    ELSE "error"

\* the file a capture writes: {date}/{HH-MM-SS}_act{activity}.jpg
EvTaken == [sig |-> "screenshot_taken", arg |-> now \div Res, act |-> current_activity]

\* the one signal capture_now() emits
CaptureEmits(ok) ==
    IF CaptureOutcome(ok) = "error" THEN <<Ev("capture_error", 0)>>
    ELSE IF SkipReason = "startup delay"
        THEN <<Ev("screenshot_skipped: startup delay", StartupRemaining)>>
    ELSE IF SkipReason # ""
        THEN <<Ev("screenshot_skipped: timer app is active window", 0)>>
    ELSE <<EvTaken>>

\* _on_capture_timer: "if result is None and self._is_running"
TimerArmsRetry(ok) == CaptureOutcome(ok) # "taken" /\ cap_is_running

\* _on_capture_timer(), the repeating interval timer fires
CapOnCaptureTimer_KeepTimer(ok) ==
    IF TimerArmsRetry(ok)
    THEN CapFields(cap_is_running, cap_start_time, TimerArmed,
                   retries \cup {now + RETRY_DELAY * Res})
    ELSE CapFields(cap_is_running, cap_start_time, TimerArmed, retries)

CapOnCaptureTimer(ok) ==
    IF TimerArmsRetry(ok)
    THEN CapFields(cap_is_running, cap_start_time, None,
                   retries \cup {now + RETRY_DELAY * Res})
    ELSE CapFields(cap_is_running, cap_start_time, TimerArmed, retries)

\* _on_retry_after_skip(), the singleShot armed for time r fires
CapOnRetry_NoRestart(r, ok) ==
    CapFields(cap_is_running, cap_start_time, capture_timer, retries \ {r})

CapOnRetry(r, ok) ==
    IF cap_is_running
    THEN CapFields(cap_is_running, cap_start_time, TimerArmed, retries \ {r})
    ELSE CapFields(cap_is_running, cap_start_time, capture_timer, retries \ {r})

RetryEmits(ok) == IF cap_is_running THEN CaptureEmits(ok) ELSE <<>>

\* The scheduler on its own: the components it does not touch
CapOnly == UNCHANGED <<envVars, dbVars, trackerVars, idleVars, monVars, histVars, idleHist>>

ScreenshotStart ==
    /\ CapStart
    /\ Observe("screenshot_start", RetNone, <<>>)
    /\ CapOnly

ScreenshotStop ==
    /\ CapStop
    /\ Observe("screenshot_stop", RetNone, <<>>)
    /\ CapOnly

SetInterval(value) ==
    /\ CapSetInterval(value)
    /\ ObserveArg("set_interval", value, RetNone, <<>>)
    /\ CapOnly

\* the interval timer is due
CaptureTimerFires(ok) ==
    /\ capture_timer # None
    /\ capture_timer <= now
    /\ CapOnCaptureTimer(ok)
    /\ Observe("on_capture_timer", RetNone, CaptureEmits(ok))
    /\ CapOnly

\* a singleShot retry is due
RetryFires(r, ok) ==
    /\ r \in retries
    /\ r <= now
    /\ CapOnRetry(r, ok)
    /\ Observe("on_retry_after_skip", RetNone, RetryEmits(ok))
    /\ CapOnly

\* the user brings the tracker window to the front, or another window
FocusChanges ==
    /\ app_focused' = ~app_focused
    /\ UNCHANGED <<cap_is_running, cap_start_time, interval_seconds, current_activity,
                   capture_timer, retries, mss_available>>
    /\ UNCHANGED <<obsVars>>
    /\ CapOnly


\* intervals the scheduler is constructed with
ConfigIntervals == {30, 60}

InitShot ==
    /\ InitEnv
    /\ InitDb
    /\ InitTracker
    /\ InitIdle(DefaultIdleThreshold)
    /\ \E i \in ConfigIntervals, m \in BOOLEAN : InitCap(i, m)
    /\ InitMon(TRUE, TRUE)
    /\ InitObs

NextShot ==
    \/ ScreenshotStart
    \/ ScreenshotStop
    \/ \E ok \in BOOLEAN : CaptureTimerFires(ok)
    \/ \E r \in retries, ok \in BOOLEAN : RetryFires(r, ok)
    \/ FocusChanges
    \/ Advance(ShotStep * Res, MaxTimeShot * Res)

\* The screenshot scheduler with its two timers, started and stopped at any
\* time, the foreground window changing at any time.
SpecShot == InitShot /\ [][NextShot]_vars

Signals(evs) == {evs[i].sig : i \in DOMAIN evs}

Skipped(evs) ==
    \E x \in Signals(evs) :
        x \in {"screenshot_skipped: startup delay",
               "screenshot_skipped: timer app is active window"}

\* what the claim says of a skipped interval-timer fire
SkipArmsOneRetry ==
    \A ok \in BOOLEAN :
        (CaptureTimerFires(ok) /\ Skipped(emitted')) =>
            /\ capture_timer' = None
            /\ now + RETRY_DELAY * Res \notin retries
            /\ retries' = retries \cup {now + RETRY_DELAY * Res}

\* what the claim says of a retry: one capture attempt (one signal, whatever
\* the outcome), the interval timer restarted, no retry armed
RetryCapturesOnce(r) ==
    /\ Len(emitted') = 1
    /\ capture_timer' = now + interval_seconds * Res
    /\ retries' = retries \ {r}

\* C10: a skip on an interval-timer fire stops the interval timer and arms
\* exactly one retry for skip time + RETRY_DELAY; the retry, firing in the
\* running scheduler, attempts one capture and restarts the interval timer,
\* and arms no further retry whether its capture is taken, skipped or fails.
C10_SkipThenOneRetry ==
    [][/\ SkipArmsOneRetry
       /\ \A r \in retries, ok \in BOOLEAN :
            (RetryFires(r, ok) /\ cap_is_running) => RetryCapturesOnce(r)]_vars

\* a retry has run with its own capture skipped: the interval timer is armed
\* again and no retry is pending
C10_Witness ==
    /\ op = "on_retry_after_skip"
    /\ Skipped(emitted)
    /\ capture_timer = now + interval_seconds * Res
    /\ retries = {}

----------------------------------------------------------------------------
\* ActivityMonitor

MonFields(asi, ist, cis, csa, lsc, tm) ==
    /\ active_seconds_in_interval' = asi
    /\ interval_start_time' = ist
    /\ continuous_idle_seconds' = cis
    /\ current_second_active' = csa
    /\ last_second_check' = lsc
    /\ check_timer' = tm
    /\ UNCHANGED <<pynput_available, mon_is_running, screenshots_enabled>>

\* int(time.time())
CurrentSecond == now \div Res

\* reset_interval(); DummyActivityMonitor.reset_interval() is "pass"
MonResetInterval ==
    IF pynput_available
    THEN MonFields(0, now, continuous_idle_seconds, FALSE, CurrentSecond, check_timer)
    ELSE UNCHANGED monVars

\* _register_activity(), run by the pynput listener threads
MonRegisterActivity ==
    MonFields(active_seconds_in_interval, interval_start_time, 0, TRUE,
              last_second_check, check_timer)

\* _register_activity() runs on a listener thread with no lock while
\* _on_check_timer() runs on the main thread.  A race <<p, q>> places its two
\* writes among the steps of the callback:
\*   p, the write _current_second_active = True:
\*      0 before the flag is read, 1 before the flag is cleared,
\*      2 before reset_interval() clears it, 3 after that;
\*   q, the write _continuous_idle_seconds = 0 (after the first write):
\*      0 before the counter is loaded for "+= 1", 1 between its load and its
\*      store, 2 before the test "> 0", 3 between the test and the load of the
\*      value to emit, 4 after that load.
NoRace == <<-1, -1>>
Races ==
    {r \in (0..3) \X (0..4) :
        \/ r[1] \in {0, 1}
        \/ r[1] \in {2, 3} /\ r[2] >= 2}

\* _on_check_timer: "if current_second > self._last_second_check"
NewSecond == CurrentSecond > last_second_check

\* _on_check_timer: "if self._current_second_active", as the callback reads it
FlagSeen(race) == IF race # NoRace /\ race[1] = 0 THEN TRUE ELSE current_second_active

\* the active seconds if the interval were evaluated before the second is counted
CountedActive_IntervalFirst(race) == active_seconds_in_interval

\* _on_check_timer: the active seconds after the second is counted
CountedActive(race) ==
    IF NewSecond /\ FlagSeen(race)
    THEN active_seconds_in_interval + 1
    ELSE active_seconds_in_interval

\* _on_check_timer: "if elapsed >= self._sample_interval"
IntervalComplete ==
    /\ interval_start_time # None
    /\ now - interval_start_time >= sample_interval * Res

\* (active_seconds / sample_interval) * 100, capped by min(100.0, ...)
MonPercentage_NoCap(active_seconds) == 100 * active_seconds

MonPercentage(active_seconds) == Min(Pct(100), 100 * active_seconds)

\* _on_check_timer: the counter as the test "if self._continuous_idle_seconds > 0" reads it
IdleTested(race) ==
    IF NewSecond /\ ~FlagSeen(race) THEN
        \* the idle branch: self._continuous_idle_seconds += 1
        IF race = NoRace THEN continuous_idle_seconds + 1
        ELSE IF race[2] = 0 THEN 1
        ELSE IF race[2] = 2 THEN 0
        ELSE continuous_idle_seconds + 1
    ELSE
        IF race # NoRace /\ race[2] <= 2 THEN 0 ELSE continuous_idle_seconds

\* _on_check_timer: idle_detected is emitted
IdleReported(race) == IdleTested(race) > 0

\* _on_check_timer: the value idle_detected carries
IdleValue(race) == IF race # NoRace /\ race[2] = 3 THEN 0 ELSE IdleTested(race)

\* the flag when callback and racing writes are done
FlagAfter(race) ==
    IF race = NoRace \/ race[1] \in {0, 1}
        THEN IF NewSecond \/ IntervalComplete THEN FALSE
             ELSE race # NoRace \/ current_second_active
    ELSE IF race[1] = 2 THEN ~IntervalComplete
    ELSE TRUE

\* the counter when callback and racing writes are done
IdleAfter(race) == IF race # NoRace /\ race[2] >= 3 THEN 0 ELSE IdleTested(race)

\* get_current_activity_percentage(), as the fraction <<numerator, denominator>>;
\* DummyActivityMonitor returns 100.0
MonCurrentActivityPercentage ==
    IF ~pynput_available THEN <<100, 1>>
    ELSE IF interval_start_time = None \/ now - interval_start_time <= 0 THEN <<0, 1>>
    ELSE IF 100 * active_seconds_in_interval * Res >= 100 * (now - interval_start_time)
    THEN <<100, 1>>
    ELSE <<100 * active_seconds_in_interval * Res, now - interval_start_time>>

\* _on_check_timer(), the sampler's own fields
MonOnCheckTimer(race) ==
    MonFields(IF IntervalComplete THEN 0 ELSE CountedActive(race),
              IF IntervalComplete THEN now ELSE interval_start_time,
              IdleAfter(race),
              FlagAfter(race),
              IF NewSecond \/ IntervalComplete THEN CurrentSecond ELSE last_second_check,
              now + Res)

----------------------------------------------------------------------------
\* MainWindow: the components wired together

\* add_screenshot: INSERT, the row id comes from the AUTOINCREMENT sequence
DbAddScreenshot(entry_id, filepath, activity) ==
    /\ shot_seq' = shot_seq + 1
    /\ screenshots' = screenshots \cup
            {[id |-> shot_seq + 1, time_entry_id |-> entry_id, filepath |-> filepath,
              activity_percentage |-> activity]}
    /\ UNCHANGED <<time_entries, db_seq>>

\* _on_screenshot_taken(filepath, activity), the slot of screenshot_taken
OnScreenshotTaken(taken) ==
    IF taken /\ current_entry # <<>> /\ current_entry[1].id # None
    THEN DbAddScreenshot(current_entry[1].id, CurrentSecond, current_activity)
    ELSE UNCHANGED dbVars

\* "if self.config.screenshots_enabled: self._screenshot_capture.start()"
StartScreenshots == IF screenshots_enabled THEN CapStart ELSE UNCHANGED capVars

\* a handler of the window touches neither the detector nor its history
\* (the history of the pauses is kept for the tracker driven on its own)
WindowOnly == UNCHANGED <<idleVars, idleHist>>

\* _on_task_start_from_list(task_id); fail: add_time_entry raises
OnTaskStartFromList(task_id, fail) ==
    /\ alive
    /\ (state = "STOPPED" /\ ~fail) => db_seq < MaxSessions
    /\ IF state # "STOPPED" THEN
            /\ UNCHANGED <<trackerVars, dbVars, capVars, monVars, histVars>>
            /\ ObserveArg("on_task_start_from_list", task_id, RetNone, <<>>)
            /\ Failing(fail, FALSE)
       ELSE
            /\ TrackerStart(task_id, fail)
            /\ IF fail
               THEN UNCHANGED <<capVars, monVars>>
               ELSE StartScreenshots /\ MonResetInterval
            /\ UNCHANGED histVars
            /\ ObserveArg("on_task_start_from_list", task_id,
                          IF fail THEN RetRaised ELSE RetNone, StartEmits(fail))
            /\ Failing(fail, fail)
    /\ WindowOnly

\* "if self._tracker.is_paused: self._tracker.resume(); ... start()", the
\* branch _on_start and _on_start_from_tray share; otherwise a message box
ResumeFromWindow(name) ==
    /\ alive
    /\ IF state = "PAUSED"
       THEN TrackerResume /\ StartScreenshots
       ELSE UNCHANGED <<trackerVars, capVars>>
    /\ Observe(name, RetNone, IF state = "PAUSED" THEN ResumeEmits ELSE <<>>)
    /\ UNCHANGED <<envVars, dbVars, monVars, histVars>>
    /\ WindowOnly

\* _on_start(): the start/resume button
OnStart == ResumeFromWindow("on_start")

\* _on_start_from_tray(): the tray menu
OnStartFromTray == ResumeFromWindow("on_start_from_tray")

\* _on_pause(): "if self._tracker.pause(): self._screenshot_capture.stop()"
OnPause_KeepCapturing ==
    /\ alive
    /\ TrackerPause
    /\ Observe("on_pause", RetNone, PauseEmits)
    /\ UNCHANGED <<envVars, dbVars, capVars, monVars, histVars>>
    /\ WindowOnly

OnPause ==
    /\ alive
    /\ TrackerPause
    /\ IF PauseRejected THEN UNCHANGED capVars ELSE CapStop
    /\ Observe("on_pause", RetNone, PauseEmits)
    /\ UNCHANGED <<envVars, dbVars, monVars, histVars>>
    /\ WindowOnly

\* _on_stop(); fail: update_time_entry raises
OnStop(fail) ==
    /\ alive
    /\ IF StopRejected
       THEN UNCHANGED <<trackerVars, dbVars, capVars>>
       ELSE CapStop /\ TrackerStop(fail)
    /\ Observe("on_stop", IF ~StopRejected /\ fail THEN RetRaised ELSE RetNone,
               StopEmits(fail))
    /\ Failing(fail, ~StopRejected /\ fail)
    /\ UNCHANGED <<monVars, histVars>>
    /\ WindowOnly

\* an input event reaches the pynput listeners between two callbacks
RegisterActivity ==
    /\ alive
    /\ check_timer # None
    /\ MonRegisterActivity
    /\ Observe("register_activity", RetNone, <<>>)
    /\ UNCHANGED <<envVars, dbVars, trackerVars, idleVars, idleHist, capVars, histVars>>

\* activity_updated is connected to _on_activity_updated:
\* "if self._tracker.is_running: self._tracker.add_activity_sample(percentage)"
SamplesAfterUpdate(race) ==
    IF IntervalComplete /\ state = "RUNNING"
    THEN Append(activity_samples, MonPercentage(CountedActive(race)))
    ELSE activity_samples

\* _on_activity_updated: self._screenshot_capture.set_activity_percentage(percentage)
ActivityAfterUpdate(race) ==
    IF IntervalComplete THEN MonPercentage(CountedActive(race)) ELSE current_activity

\* the slots of IdleDetector.activity_resumed (_connect_signals connects none)
ActivityResumedSlots_Resume == {"resume"}
ActivityResumedSlots == {}

\* idle_threshold_reached is connected to _on_idle_threshold:
\* "if self._tracker.is_running: self._on_pause()"
AutoPauses(race) ==
    /\ IdleReported(race)
    /\ ThresholdFires(IdleValue(race))
    /\ state = "RUNNING"

\* activity_resumed reaches a slot that resumes the tracker
SlotResumes(race) ==
    /\ IdleReported(race)
    /\ ~ThresholdFires(IdleValue(race))
    /\ ResumeFires(IdleValue(race))
    /\ "resume" \in ActivityResumedSlots

CheckTimerEmits(race) ==
    (IF IntervalComplete
     THEN <<Ev("activity_updated", MonPercentage(CountedActive(race)))>> ELSE <<>>)
    \o (IF IdleReported(race)
        THEN <<Ev("idle_detected", IdleValue(race))>> \o IdleEmits(IdleValue(race))
        ELSE <<>>)
    \o (IF AutoPauses(race) THEN PauseEmits ELSE <<>>)

\* the sampler's 1-second timer fires: _on_check_timer() and, synchronously,
\* every slot its signals reach
CheckTimerFires(race) ==
    /\ alive
    /\ check_timer # None
    /\ check_timer <= now
    /\ MonOnCheckTimer(race)
    /\ IF IdleReported(race)
       THEN IdleOnIdleDetected(IdleValue(race)) /\ IdleHistory(IdleValue(race))
       ELSE UNCHANGED <<idleVars, idleHist>>
    /\ IF AutoPauses(race) THEN
            /\ TrackerPauseWith(SamplesAfterUpdate(race))
            /\ CapStopWith(ActivityAfterUpdate(race))
       ELSE IF SlotResumes(race) /\ state = "PAUSED" THEN
            /\ TrackerResume
            /\ UNCHANGED capVars
       ELSE
            /\ TrackerFields(state, current_entry, start_time, pause_time,
                             paused_duration, elapsed_seconds,
                             SamplesAfterUpdate(race), timer)
            /\ CapFieldsWith(cap_is_running, cap_start_time, capture_timer, retries,
                             ActivityAfterUpdate(race))
    /\ ObserveArg("on_check_timer", IdleValue(race), RetNone, CheckTimerEmits(race))
    /\ UNCHANGED <<envVars, dbVars, histVars>>

\* the scheduler's interval timer fires, screenshot_taken reaching its slot
WindowCaptureTimerFires(ok) ==
    /\ alive
    /\ capture_timer # None
    /\ capture_timer <= now
    /\ CapOnCaptureTimer(ok)
    /\ OnScreenshotTaken(CaptureOutcome(ok) = "taken")
    /\ Observe("on_capture_timer", RetNone, CaptureEmits(ok))
    /\ UNCHANGED <<envVars, trackerVars, monVars, histVars>>
    /\ WindowOnly

\* a retry of the scheduler fires, screenshot_taken reaching its slot
WindowRetryFires(r, ok) ==
    /\ alive
    /\ r \in retries
    /\ r <= now
    /\ CapOnRetry(r, ok)
    /\ OnScreenshotTaken(cap_is_running /\ CaptureOutcome(ok) = "taken")
    /\ Observe("on_retry_after_skip", RetNone, RetryEmits(ok))
    /\ UNCHANGED <<envVars, trackerVars, monVars, histVars>>
    /\ WindowOnly


\* ActivityMonitor.start() / DummyActivityMonitor.start(), called by MainWindow.__init__
InitMonStarted_AlwaysHooks(pynput, enabled) ==
    /\ pynput_available = pynput
    /\ mon_is_running = TRUE
    /\ active_seconds_in_interval = 0
    /\ interval_start_time = now
    /\ continuous_idle_seconds = 0
    /\ current_second_active = FALSE
    /\ last_second_check = CurrentSecond
    /\ check_timer = now + Res
    /\ screenshots_enabled = enabled

InitMonStarted(pynput, enabled) ==
    /\ pynput_available = pynput
    /\ mon_is_running = TRUE
    /\ active_seconds_in_interval = 0
    /\ interval_start_time = IF pynput THEN now ELSE None
    /\ continuous_idle_seconds = 0
    /\ current_second_active = FALSE
    /\ last_second_check = IF pynput THEN CurrentSecond ELSE 0
    /\ check_timer = IF pynput THEN now + Res ELSE None
    /\ screenshots_enabled = enabled

\* MainWindow.__init__: the state when the window is up, nothing to recover,
\* screenshots every STARTUP_DELAY seconds, the input hooks there or not
InitWired ==
    /\ InitEnv
    /\ InitDb
    /\ InitTracker
    /\ InitIdle(WiredIdleThreshold)
    /\ InitCap(STARTUP_DELAY, TRUE)
    /\ \E p \in BOOLEAN : InitMonStarted(p, TRUE)
    /\ InitObs

\* time passes: second by second while the sampler ticks, in larger steps
\* (to the next timer) with the fallback sampler
WiredAdvance ==
    Advance(RETRY_DELAY * Res,
            IF check_timer # None THEN MaxTimeWired * Res ELSE MaxTimeFallback * Res)

NextWired ==
    \/ \E t \in Tasks : OnTaskStartFromList(t, FALSE)
    \/ OnStart
    \/ OnStartFromTray
    \/ OnPause
    \/ OnStop(FALSE)
    \/ RegisterActivity
    \/ \E race \in Races \cup {NoRace} : CheckTimerFires(race)
    \/ \E ok \in BOOLEAN : WindowCaptureTimerFires(ok)
    \/ \E r \in retries, ok \in BOOLEAN : WindowRetryFires(r, ok)
    \/ FocusChanges
    \/ WiredAdvance

\* The window with tracker, sampler, idle detector and screenshot scheduler
\* wired as _connect_signals wires them, the user pressing the buttons.
SpecWired == InitWired /\ [][NextWired]_vars

\* C8: in the wired system every continuous idle episode that reaches the
\* threshold while the tracker is RUNNING raises idle_threshold_reached and
\* auto-pauses the tracker, the second and every later episode included.
C8_EveryEpisodeAutoPauses ==
    [][\A race \in Races \cup {NoRace} :
        (/\ CheckTimerFires(race)
         /\ state = "RUNNING"
         /\ continuous_idle_seconds < threshold_seconds
         /\ IdleReported(race)
         /\ IdleValue(race) >= threshold_seconds) =>
            /\ \E i \in DOMAIN emitted' : emitted'[i].sig = "idle_threshold_reached"
            /\ state' = "PAUSED"]_vars

\* C9: the tracker leaves PAUSED for RUNNING only in a handler of the user's
\* start/resume controls (the start button, the tray's start); no callback of
\* the sampler, the idle detector or the scheduler resumes it.
C9_ResumeOnlyByUser ==
    [][(state = "PAUSED" /\ state' = "RUNNING") => (OnStart \/ OnStartFromTray)]_vars

\* the detector has emitted activity_resumed for an auto-paused session, and
\* the session is still PAUSED
C9_Witness ==
    /\ state = "PAUSED"
    /\ op = "on_check_timer"
    /\ \E i \in DOMAIN emitted : emitted[i].sig = "activity_resumed"
    /\ ~was_notified
    /\ time_entries # {}

----------------------------------------------------------------------------
\* Properties of the screenshot scheduler

\* C11: a capture that fails on an interval-timer fire (error while grabbing
\* or writing, or the capture library missing) emits capture_error, leaves
\* the interval timer armed for the next regular fire and arms no retry.
C11_FailureKeepsInterval ==
    [][\A ok \in BOOLEAN :
        (CaptureTimerFires(ok) /\ CaptureOutcome(ok) = "error") =>
            /\ emitted' = <<Ev("capture_error", 0)>>
            /\ capture_timer' = now + interval_seconds * Res
            /\ retries' = retries]_vars

\* The scheduler observed without end: the clock is kept in a window by moving
\* the epoch.  When the clock reaches 2 * RebaseSpan every time stamp is
\* lowered by RebaseSpan; a start time older than that is kept at 0, which is
\* still more than STARTUP_DELAY ago.
RebaseSpan == 2 * RETRY_DELAY * Res

Earliest(ts) == CHOOSE m \in ts : \A t \in ts : m <= t

Rebased(t, shift) == IF t = None THEN None ELSE Max(0, t - shift)

\* the wall clock advances by d clock units, but not past the next timer
AdvanceRebasing(d) ==
    /\ \A t \in Deadlines : t > now
    /\ LET target == Earliest({now + d} \cup Deadlines)
           shift == IF target >= 2 * RebaseSpan THEN RebaseSpan ELSE 0
       IN /\ now' = target - shift
          /\ cap_start_time' = Rebased(cap_start_time, shift)
          /\ capture_timer' = Rebased(capture_timer, shift)
          /\ retries' = {r - shift : r \in retries}
    /\ UNCHANGED <<alive, n_fails, dbVars, trackerVars, idleVars, monVars, obsVars,
                   histVars, idleHist>>
    /\ UNCHANGED <<cap_is_running, interval_seconds, current_activity, mss_available,
                   app_focused>>

\* step of the clock when the scheduler is observed without end
LiveStep == (STARTUP_DELAY * Res) \div 2

NextShotLive ==
    \/ ScreenshotStart
    \/ ScreenshotStop
    \/ \E ok \in BOOLEAN : CaptureTimerFires(ok)
    \/ \E r \in retries, ok \in BOOLEAN : RetryFires(r, ok)
    \/ FocusChanges
    \/ AdvanceRebasing(LiveStep)

\* The event loop runs a timer that is due, and time passes.
SpecShotLive ==
    /\ InitShot
    /\ [][NextShotLive]_vars
    /\ WF_vars(AdvanceRebasing(LiveStep))
    /\ WF_vars(\E ok \in BOOLEAN : CaptureTimerFires(ok))
    /\ WF_vars(\E r \in retries, ok \in BOOLEAN : RetryFires(r, ok))

\* a timer callback of the running scheduler calls capture_now()
CaptureAttempt ==
    \/ \E ok \in BOOLEAN : CaptureTimerFires(ok)
    \/ \E r \in retries, ok \in BOOLEAN : cap_is_running /\ RetryFires(r, ok)

\* C12: the running scheduler always has a timer armed, and if it stays
\* running a capture attempt happens again and again, whatever the skip
\* condition does.
C12_NeverStalls ==
    /\ [](cap_is_running => (capture_timer # None \/ retries # {}))
    /\ (<>[]cap_is_running) => []<><<CaptureAttempt>>_vars

\* the window has stayed focused through a skip, its retry and the next
\* interval fire, which is skipped again
C12_Witness ==
    /\ op = "on_capture_timer"
    /\ emitted = <<Ev("screenshot_skipped: timer app is active window", 0)>>
    /\ app_focused
    /\ cap_is_running
    /\ capture_timer = None
    /\ now - cap_start_time >= (RETRY_DELAY + 3 * interval_seconds) * Res

\* a pending retry that was armed before the most recent start(), and so
\* before the stop() that preceded it
ArmedBeforeStop(r) ==
    \/ ~cap_is_running
    \/ r < cap_start_time + RETRY_DELAY * Res

\* C13: a one-shot retry armed before a stop() performs no capture attempt and
\* does not re-arm the interval timer when it fires, also when start() was
\* called again in between.
C13_StopCancelsRetries ==
    [][\A r \in retries, ok \in BOOLEAN :
        (RetryFires(r, ok) /\ ArmedBeforeStop(r)) =>
            /\ emitted' = <<>>
            /\ capture_timer' = capture_timer]_vars

\* an operation or a timer callback of the scheduler
SchedulerStep ==
    \/ ScreenshotStart
    \/ ScreenshotStop
    \/ \E ok \in BOOLEAN : CaptureTimerFires(ok)
    \/ \E r \in retries, ok \in BOOLEAN : RetryFires(r, ok)

\* C14: neither start() nor a timer callback captures a screenshot earlier
\* than STARTUP_DELAY after the most recent start() of the scheduler.
C14_NoCaptureInStartupDelay ==
    [][(SchedulerStep /\ "screenshot_taken" \in Signals(emitted')) =>
            /\ cap_start_time' # None
            /\ now' - cap_start_time' >= STARTUP_DELAY * Res]_vars

\* a capture exactly STARTUP_DELAY after a start() that was not the first one
C14_Witness ==
    /\ "screenshot_taken" \in Signals(emitted)
    /\ cap_start_time > 0
    /\ now - cap_start_time = STARTUP_DELAY * Res

\* C15: on an interval-timer fire with the capture library present the skip
\* predicate is evaluated in order: within the start-up delay a skip for the
\* start-up delay, focused or not; after it a skip for the active window when
\* the tracker window is focused; else, when nothing fails, a capture with a
\* screenshot_taken event.
C15_SkipPredicateOrder ==
    [][\A ok \in BOOLEAN :
        (CaptureTimerFires(ok) /\ mss_available) =>
            IF now - cap_start_time < STARTUP_DELAY * Res
            THEN emitted' = <<Ev("screenshot_skipped: startup delay",
                                 StartupRemaining)>>
            ELSE IF app_focused
            THEN emitted' = <<Ev("screenshot_skipped: timer app is active window", 0)>>
            ELSE ok => emitted' = <<EvTaken>>]_vars

\* the timer fired within the start-up delay while the tracker window was
\* focused, and the skip names the start-up delay
C15_Witness ==
    /\ op = "on_capture_timer"
    /\ app_focused
    /\ mss_available
    /\ now - cap_start_time < STARTUP_DELAY * Res
    /\ Signals(emitted) = {"screenshot_skipped: startup delay"}

----------------------------------------------------------------------------
\* Screenshot records.  The window with the tracker and the scheduler, the
\* store failing at times.  The sampler is left out: what it does to the
\* window, the idle threshold being reached, arrives at any time.

\* _on_idle_threshold(), the slot of idle_threshold_reached
OnIdleThreshold ==
    /\ alive
    /\ IF state = "RUNNING"
       THEN TrackerPause /\ CapStop
       ELSE UNCHANGED <<trackerVars, capVars>>
    /\ Observe("on_idle_threshold", RetNone,
               IF state = "RUNNING" THEN PauseEmits ELSE <<>>)
    /\ UNCHANGED <<envVars, dbVars, monVars, histVars>>
    /\ WindowOnly

InitRecord ==
    /\ InitEnv
    /\ InitDb
    /\ InitTracker
    /\ InitIdle(DefaultIdleThreshold)
    /\ InitCap(STARTUP_DELAY, TRUE)
    /\ InitMonStarted(FALSE, TRUE)
    /\ InitObs

NextRecord ==
    \/ \E t \in Tasks, fail \in BOOLEAN : OnTaskStartFromList(t, fail)
    \/ OnStart
    \/ OnStartFromTray
    \/ OnPause
    \/ OnIdleThreshold
    \/ \E fail \in BOOLEAN : OnStop(fail)
    \/ \E ok \in BOOLEAN : WindowCaptureTimerFires(ok)
    \/ \E r \in retries, ok \in BOOLEAN : WindowRetryFires(r, ok)
    \/ FocusChanges
    \/ WiredAdvance

SpecRecord == InitRecord /\ [][NextRecord]_vars

\* C16: in the wired system a Screenshot record is created only while the
\* tracker is RUNNING, and it references the session that is open then.
C16_RecordOnlyWhileRunning ==
    [][\A s \in screenshots' \ screenshots :
        /\ state = "RUNNING"
        /\ state' = "RUNNING"
        /\ \E e \in OpenEntries : e.id = s.time_entry_id]_vars

\* a record was written for the open session by a capture after a pause and
\* a resume
C16_Witness ==
    /\ state = "RUNNING"
    /\ paused_duration > 0
    /\ "screenshot_taken" \in Signals(emitted)
    /\ \E s \in screenshots, e \in OpenEntries : e.id = s.time_entry_id

----------------------------------------------------------------------------
\* Crash recovery and failures of the store at stop, over sessions that last
\* some seconds

NextRecover ==
    \/ \E t \in Tasks, f \in BOOLEAN : Start(t, f)
    \/ Pause
    \/ Resume
    \/ \E f \in BOOLEAN : Stop(f)
    \/ Crash
    \/ Launch
    \/ Advance(1, MaxTimeOps)

SpecRecover == Init /\ [][NextRecover]_vars

\* C17: on process start with a persisted open session whose start time is T
\* the tracker adopts it: RUNNING, the tick running, paused duration 0 and
\* elapsed_seconds = now - T in whole seconds; with no open session the
\* tracker starts STOPPED.
C17_RecoveryAdoptsOpenSession ==
    [][Launch =>
        IF OpenEntries = {}
        THEN state' = "STOPPED" /\ current_entry' = <<>> /\ ~timer'
        ELSE \E e \in OpenEntries :
                /\ current_entry' = <<e>>
                /\ state' = "RUNNING"
                /\ timer'
                /\ pause_time' = None
                /\ paused_duration' = 0
                /\ start_time' = e.start_time
                /\ elapsed_seconds' = IntSeconds(now - e.start_time)]_vars

\* a session two seconds old has been adopted
C17_Witness ==
    /\ op = "launch"
    /\ state = "RUNNING"
    /\ elapsed_seconds = 2
    /\ current_entry[1] \in OpenEntries

\* C19: when update_time_entry raises during stop() the failure reaches the
\* caller, nothing is emitted (no entry_saved), the tracker keeps its state
\* and the session stays open in the store; no later call opens a second one.
C19_FailedStopKeepsSession ==
    /\ [][(state # "STOPPED" /\ Stop(TRUE)) =>
            /\ result' = RetRaised
            /\ emitted' = <<>>
            /\ state' = state
            /\ time_entries' = time_entries
            /\ current_entry'[1].id = current_entry[1].id
            /\ \E e \in OpenEntries' : e.id = current_entry[1].id]_vars
    /\ [](Cardinality(OpenEntries) <= 1)

\* after a failed stop() (RUNNING with the tick stopped) a start() has been
\* refused and the one session is still open
C19_Witness ==
    /\ op = "start"
    /\ result = RetFalse
    /\ state = "RUNNING"
    /\ ~timer
    /\ n_fails > 0
    /\ Cardinality(OpenEntries) = 1

----------------------------------------------------------------------------
\* Discarding a session that has screenshots.  The scheduler is left out: a
\* screenshot_taken reaches the window's slot at any time.

ScreenshotTaken ==
    /\ alive
    /\ TrackerOnly
    /\ shot_seq < MaxShots
    /\ OnScreenshotTaken(TRUE)
    /\ Observe("on_screenshot_taken", RetNone, <<>>)
    /\ UNCHANGED <<envVars, trackerVars, histVars>>

NextDiscard ==
    \/ \E t \in Tasks, f \in BOOLEAN : Start(t, f)
    \/ Pause
    \/ Resume
    \/ \E f \in BOOLEAN : Stop(f)
    \/ \E f \in BOOLEAN : Discard(f)
    \/ ScreenshotTaken
    \/ Crash
    \/ Launch
    \/ Advance(1, MaxTime)

SpecDiscard == Init /\ [][NextDiscard]_vars

\* C18: discard() from RUNNING or PAUSED, the store raising nothing, deletes
\* the open session and all its screenshot records and leaves the tracker
\* STOPPED: no session is open and no screenshot of that session remains.
C18_DiscardLeavesNothing ==
    [][(state # "STOPPED" /\ Discard(FALSE)) =>
            /\ state' = "STOPPED"
            /\ current_entry' = <<>>
            /\ OpenEntries' = {}
            /\ \A e \in time_entries' : e.id # current_entry[1].id
            /\ \A s \in screenshots' : s.time_entry_id # current_entry[1].id]_vars

\* a session with a pause and screenshots was discarded, next to a saved
\* session whose screenshot is kept
C18_Witness ==
    /\ op = "discard"
    /\ state = "STOPPED"
    /\ shot_seq = MaxShots
    /\ Cardinality(screenshots) = 1
    /\ Cardinality(time_entries) = 1
    /\ db_seq = 2

----------------------------------------------------------------------------
\* The mean activity of a session.  The sampler is left out: an
\* activity_updated(percentage) reaches the window's slot at any time.

\* _on_activity_updated(percentage), the slot of activity_updated
OnActivityUpdated(percentage) ==
    /\ alive
    /\ Len(emissions) < MaxEmissions
    /\ CapFieldsWith(cap_is_running, cap_start_time, capture_timer, retries, percentage)
    /\ IF state = "RUNNING"
       THEN TrackerAddActivitySample(percentage)
       ELSE UNCHANGED trackerVars
    /\ emissions' = Append(emissions,
            [entry |-> IF current_entry # <<>> THEN current_entry[1].id ELSE None,
             state |-> state,
             pct |-> percentage])
    /\ ObserveArg("on_activity_updated", percentage, RetNone, <<>>)
    /\ UNCHANGED <<envVars, dbVars, idleVars, idleHist, monVars, true_paused>>

\* the percentages a sampler can emit that the model draws from
Percentages == {0, Pct(100)}

NextMean ==
    \/ \E t \in Tasks, f \in BOOLEAN : Start(t, f)
    \/ Pause
    \/ Resume
    \/ \E f \in BOOLEAN : Stop(f)
    \/ \E p \in Percentages : OnActivityUpdated(p)
    \/ Crash
    \/ Launch
    \/ Advance(1, MaxTime)

SpecMean == Init /\ [][NextMean]_vars

\* the percentages emitted while the tracker was RUNNING with session id open
RunningPercentages(id) ==
    LET sel == SelectSeq(emissions, LAMBDA m : m.entry = id /\ m.state = "RUNNING")
    IN [i \in 1..Len(sel) |-> sel[i].pct]

\* two means held as <<sum, count>> are the same number
SameMean(a, b) == a[1] * b[2] = b[1] * a[2]

\* C20: the mean activity written to a session at stop is the arithmetic mean
\* of exactly the percentages emitted while the tracker was RUNNING during
\* that session (0 if there were none).
C20_MeanOfRunningSamples ==
    [][(state # "STOPPED" /\ Stop(FALSE)) =>
        \A e \in time_entries' :
            e.id = current_entry[1].id =>
                SameMean(e.activity_percentage,
                         AvgActivity(RunningPercentages(e.id)))]_vars

----------------------------------------------------------------------------
\* The sampler over a whole measurement interval.  The window is up and the
\* user starts no task; reset_interval() is called early, off the beat of the
\* check timer, by its owner.

\* reset_interval() called from outside the sampler
ResetInterval ==
    /\ alive
    /\ 0 < now
    /\ now <= MaxResetAt
    /\ op # "reset_interval"
    /\ MonResetInterval
    /\ Observe("reset_interval", RetNone, <<>>)
    /\ UNCHANGED <<envVars, dbVars, trackerVars, idleVars, idleHist, capVars, histVars>>

InitSampler ==
    /\ InitEnv
    /\ InitDb
    /\ InitTracker
    /\ InitIdle(DefaultIdleThreshold)
    /\ InitCap(DefaultScreenshotInterval, TRUE)
    /\ InitMonStarted(TRUE, TRUE)
    /\ InitObs

\* input arrives (between two callbacks, or racing with one) as long as the
\* user has not been idle for more than MaxGap seconds
InputArrives == continuous_idle_seconds <= MaxGap

NextSampler ==
    \/ \E race \in (IF InputArrives THEN Races ELSE {}) \cup {NoRace} : CheckTimerFires(race)
    \/ InputArrives /\ RegisterActivity
    \/ ResetInterval
    \/ Advance(IF now < MaxResetAt THEN 1 ELSE Res, (sample_interval + MaxOverrun) * Res)

SpecSampler == InitSampler /\ [][NextSampler]_vars

\* the seconds counted active when the callback computes the percentage
SecondsCounted(race) ==
    IF /\ now \div Res > last_second_check
       /\ (current_second_active \/ (race # NoRace /\ race[1] = 0))
    THEN active_seconds_in_interval + 1
    ELSE active_seconds_in_interval

\* C21: when a measurement interval of I = sample_interval seconds completes
\* with S seconds counted active the sampler emits min(100, 100 * S / I)
\* (held as percentage * I) and resets the interval: active seconds 0,
\* interval start = now.
C21_PercentageOfInterval ==
    [][(/\ interval_start_time # None
        /\ now - interval_start_time >= sample_interval * Res
        /\ op' = "on_check_timer") =>
        \A race \in Races \cup {NoRace} :
          CheckTimerFires(race) =>
            /\ emitted' # <<>>
            /\ emitted'[1] = Ev("activity_updated",
                                IF 100 * SecondsCounted(race) <= 100 * sample_interval
                                THEN 100 * SecondsCounted(race)
                                ELSE 100 * sample_interval)
            /\ active_seconds_in_interval' = 0
            /\ interval_start_time' = now]_vars

\* an interval has completed with half of its seconds active
C21_Witness ==
    /\ op = "on_check_timer"
    /\ emitted # <<>>
    /\ emitted[1] = Ev("activity_updated", 50 * sample_interval)
    /\ active_seconds_in_interval = 0
    /\ interval_start_time = now

----------------------------------------------------------------------------
\* The fallback sampler

\* C22: when the input hooks are unavailable the fallback sampler answers 100
\* to every activity query and never emits idle_detected, so the idle
\* detector never fires and the tracker is paused only by the user.
C22_FallbackNeverIdle ==
    /\ [](~pynput_available =>
            /\ MonCurrentActivityPercentage = <<100, 1>>
            /\ ~was_notified
            /\ ~is_idle)
    /\ [][~pynput_available =>
            /\ "idle_detected" \notin Signals(emitted')
            /\ "idle_threshold_reached" \notin Signals(emitted')
            /\ (state = "RUNNING" /\ state' = "PAUSED") => op' = "on_pause"]_vars

\* with the fallback sampler a session has been running for two minutes, far
\* beyond the idle threshold, with no input
C22_Witness ==
    /\ ~pynput_available
    /\ mon_is_running
    /\ state = "RUNNING"
    /\ pause_time = None
    /\ paused_duration = 0
    /\ now - start_time >= RETRY_DELAY * Res
    /\ RETRY_DELAY > threshold_seconds

----------------------------------------------------------------------------
\* Minimum values of the settings

\* idle_threshold values config.json can hold: the file is loaded as it is
\* (Config._load_config), the settings dialog writes whole minutes
StoredIdleThresholds == {30, 60, DefaultIdleThreshold}

InitIdleStored ==
    /\ InitEnv
    /\ InitDb
    /\ InitTracker
    /\ \E th \in StoredIdleThresholds : InitIdle(th)
    /\ InitCap(DefaultScreenshotInterval, TRUE)
    /\ InitMon(TRUE, TRUE)
    /\ InitObs

\* The idle detector constructed from the stored setting, then fed reports
\* and threshold updates.
SpecIdleStored == InitIdleStored /\ [][NextIdle]_vars

\* C23: in every reachable state of the idle detector, from construction on
\* and after any threshold update, the threshold in force is at least 60 s.
C23_ThresholdAtLeast60 == threshold_seconds >= 60

\* C24: in every reachable state of the screenshot scheduler, from
\* construction on and after any interval update, the capture interval in
\* force is at least 60 s.
C24_IntervalAtLeast60 == interval_seconds >= 60

----------------------------------------------------------------------------
\* Threads of the sampler

\* the handlers that run on the pynput listener threads (_on_mouse_activity,
\* _on_keyboard_activity); every other handler runs on the event loop
ListenerThreadHandlers == {"register_activity"}

\* C25: the input-hook callbacks on the listener threads never write the
\* sampler's shared fields (the current-second-active flag, the
\* continuous-idle counter); every write to them is made on the event loop.
C25_ListenersNeverWrite ==
    [][op' \in ListenerThreadHandlers =>
        /\ current_second_active' = current_second_active
        /\ continuous_idle_seconds' = continuous_idle_seconds]_vars

----------------------------------------------------------------------------
\* Elapsed time on the tick, over sessions that last some seconds

NextElapsed ==
    \/ \E t \in Tasks, f \in BOOLEAN : Start(t, f)
    \/ Pause
    \/ Resume
    \/ \E f \in BOOLEAN : Stop(f)
    \/ \E f \in BOOLEAN : Discard(f)
    \/ Tick
    \/ Crash
    \/ Launch
    \/ Advance(1, MaxTimeOps)

SpecElapsed == Init /\ [][NextElapsed]_vars

\* C26: every value of elapsed_seconds the tracker holds, and every value it
\* emits with time_updated, is >= 0.
C26_ElapsedNeverNegative ==
    /\ elapsed_seconds >= 0
    /\ \A i \in DOMAIN emitted : emitted[i].sig = "time_updated" => emitted[i].arg >= 0

----------------------------------------------------------------------------
\* File paths of the captures

\* the path capture_now() writes: the second of the capture and the activity
\* in the file name
PathOf(s) == <<s.filepath, s.activity_percentage>>

\* C27: no two captures of the scheduler write the same file path (two
\* captures never happen within the same wall-clock second).
C27_PathsUnique ==
    \A s1, s2 \in screenshots : s1.id # s2.id => PathOf(s1) # PathOf(s2)

----------------------------------------------------------------------------
\* start() and stop() called again

\* ActivityMonitor.start(): "if self._is_running or not PYNPUT_AVAILABLE: return";
\* DummyActivityMonitor.start(): "self._is_running = True"
MonStart ==
    IF ~pynput_available THEN
        /\ mon_is_running' = TRUE
        /\ UNCHANGED <<pynput_available, active_seconds_in_interval, interval_start_time,
                       continuous_idle_seconds, current_second_active, last_second_check,
                       check_timer, screenshots_enabled>>
    ELSE IF mon_is_running THEN UNCHANGED monVars
    ELSE
        /\ mon_is_running' = TRUE
        /\ active_seconds_in_interval' = 0
        /\ interval_start_time' = now
        /\ continuous_idle_seconds' = 0
        /\ current_second_active' = FALSE
        /\ last_second_check' = CurrentSecond
        /\ check_timer' = now + Res
        /\ UNCHANGED <<pynput_available, screenshots_enabled>>

\* ActivityMonitor.stop(): "if not self._is_running: return", the check timer
\* and the listeners are stopped; DummyActivityMonitor.stop(): "self._is_running = False"
MonStop ==
    IF ~mon_is_running THEN UNCHANGED monVars
    ELSE
        /\ mon_is_running' = FALSE
        /\ check_timer' = None
        /\ UNCHANGED <<pynput_available, active_seconds_in_interval, interval_start_time,
                       continuous_idle_seconds, current_second_active, last_second_check,
                       screenshots_enabled>>

SamplerStart ==
    /\ alive
    /\ MonStart
    /\ Observe("sampler_start", RetNone, <<>>)
    /\ UNCHANGED <<envVars, dbVars, trackerVars, idleVars, idleHist, capVars, histVars>>

SamplerStop ==
    /\ alive
    /\ MonStop
    /\ Observe("sampler_stop", RetNone, <<>>)
    /\ UNCHANGED <<envVars, dbVars, trackerVars, idleVars, idleHist, capVars, histVars>>

InitStartStop ==
    /\ InitEnv
    /\ InitDb
    /\ InitTracker
    /\ InitIdle(DefaultIdleThreshold)
    /\ InitCap(STARTUP_DELAY, TRUE)
    /\ \E p \in BOOLEAN : InitMon(p, TRUE)
    /\ InitObs

NextStartStop ==
    \/ ScreenshotStart
    \/ ScreenshotStop
    \/ SamplerStart
    \/ SamplerStop
    \/ RegisterActivity
    \/ CheckTimerFires(NoRace)
    \/ Advance(1, MaxTimeOps)

\* The sampler and the scheduler started and stopped at any time, input
\* arriving, the sampler's check timer firing.
SpecStartStop == InitStartStop /\ [][NextStartStop]_vars

\* what start() and stop() of either component could change
ComponentVars == <<capVars, monVars, trackerVars, idleVars, dbVars>>

\* C28: start() and stop() of the sampler and of the screenshot scheduler are
\* idempotent: a start() while running changes nothing (the recorded start
\* time and the armed timer are kept) and a stop() while stopped changes
\* nothing.
C28_StartStopIdempotent ==
    [][/\ (ScreenshotStart /\ cap_is_running) =>
            /\ cap_start_time' = cap_start_time
            /\ capture_timer' = capture_timer
            /\ UNCHANGED ComponentVars
       /\ (ScreenshotStop /\ ~cap_is_running) => UNCHANGED ComponentVars
       /\ (SamplerStart /\ mon_is_running) =>
            /\ interval_start_time' = interval_start_time
            /\ check_timer' = check_timer
            /\ UNCHANGED ComponentVars
       /\ (SamplerStop /\ ~mon_is_running) => UNCHANGED ComponentVars]_vars

\* the scheduler was started, the sampler was started later, and then start()
\* of the scheduler was called again: its start time is still the earlier one
C28_Witness ==
    /\ op = "screenshot_start"
    /\ cap_is_running
    /\ mon_is_running
    /\ interval_start_time # None
    /\ cap_start_time < interval_start_time
    /\ capture_timer = cap_start_time + interval_seconds * Res

----------------------------------------------------------------------------
\* The entry_saved signal

\* the Sessions this step finalizes: open in the store before, closed after
FinalizedNow ==
    {r.id : r \in {x \in time_entries : x.end_time = None /\
                        \E y \in time_entries' : y.id = x.id /\ y.end_time # None}}

EntrySaved(evs) == {i \in DOMAIN evs : evs[i].sig = "entry_saved"}

\* C29: entry_saved carrying the Session id is emitted exactly once for each
\* stop() that finalizes a Session, after state_changed(STOPPED); it is never
\* emitted by discard(), by a rejected call or by a stop() whose persistence
\* write failed.
C29_EntrySavedOncePerStop ==
    [][(obsVars' # obsVars \/ FinalizedNow # {}) =>
          IF op' = "stop" /\ FinalizedNow # {}
          THEN \E id \in FinalizedNow :
                  /\ FinalizedNow = {id}
                  /\ result' = RetId(id)
                  /\ emitted' = <<Ev("state_changed", StateCode("STOPPED")),
                                  Ev("entry_saved", id)>>
                  /\ state' = "STOPPED"
          ELSE EntrySaved(emitted') = {}]_vars

\* a stop() has finalized a Session after an earlier stop() of it had failed
C29_Witness ==
    /\ op = "stop"
    /\ n_fails > 0
    /\ result.kind = "id"
    /\ emitted = <<Ev("state_changed", StateCode("STOPPED")), Ev("entry_saved", result.val)>>
    /\ \E r \in time_entries : r.id = result.val /\ r.end_time # None

----------------------------------------------------------------------------
\* start() while PAUSED

\* the task ids start() is called with
TaskIds == {1, 2}

\* start(task_id), the task id of the call observed
StartTask(task_id, fail) ==
    /\ alive
    /\ TrackerOnly
    /\ (state = "STOPPED" /\ ~fail) => db_seq < MaxEntries
    /\ TrackerStart(task_id, fail)
    /\ ObserveArg("start", task_id, StartReturns(fail), StartEmits(fail))
    /\ IF StartReturns(fail) # RetTrue THEN UNCHANGED histVars
       ELSE IF state = "PAUSED" THEN HistResume ELSE HistBegin
    /\ Failing(fail, StartReturns(fail) = RetRaised)

NextResume ==
    \/ \E t \in TaskIds, f \in BOOLEAN : StartTask(t, f)
    \/ Pause
    \/ Resume
    \/ \E f \in BOOLEAN : Stop(f)
    \/ Advance(Res, MaxTimeOps)

\* The tracker started with any task id, paused, resumed and stopped.
SpecResume == Init /\ [][NextResume]_vars

\* C30: start(task_id) called while PAUSED is equivalent to resume(): the step
\* is a step of resume() (elapsed-since-pause added to the paused duration,
\* pause timestamp cleared, RUNNING, tick restarted, the same return value and
\* events), no Session record is created, and the Session's task reference is
\* unchanged even when task_id differs from it.
C30_StartWhilePausedIsResume ==
    [][state = "PAUSED" =>
          \A t \in TaskIds, f \in BOOLEAN :
             StartTask(t, f) =>
                /\ TrackerResume
                /\ result' = ResumeReturns
                /\ emitted' = ResumeEmits
                /\ state' = "RUNNING"
                /\ pause_time' = None
                /\ paused_duration' = paused_duration + IntSeconds(now - pause_time)
                /\ timer'
                /\ UNCHANGED <<dbVars, n_fails>>
                /\ current_entry'[1].task_id = current_entry[1].task_id]_vars

\* start() resumed a Session of another task after a pause of a second or more
C30_Witness ==
    /\ op = "start"
    /\ state = "RUNNING"
    /\ result = RetTrue
    /\ emitted = <<Ev("state_changed", StateCode("RUNNING"))>>
    /\ paused_duration > 0
    /\ arg # current_entry[1].task_id

----------------------------------------------------------------------------
\* The tracker gating the scheduler

\* the process ends: its objects and its timers are gone, the store stays
WindowCrash ==
    /\ alive
    /\ alive' = FALSE
    /\ TrackerFields("STOPPED", <<>>, None, None, 0, 0, <<>>, FALSE)
    /\ CapFieldsWith(FALSE, None, None, {}, 0)
    /\ MonStop
    /\ is_idle' = FALSE
    /\ was_notified' = FALSE
    /\ UNCHANGED <<threshold_seconds, is_enabled>>
    /\ Observe("crash", RetNone, <<>>)
    /\ UNCHANGED <<now, n_fails, dbVars, histVars, idleHist>>

\* MainWindow.__init__: the tracker is constructed and recovers the open
\* session, scheduler and detector are constructed, the sampler is started;
\* the scheduler is not started
WindowLaunch ==
    /\ ~alive
    /\ alive' = TRUE
    /\ \E active \in (IF RecoverAdopts = {} THEN {<<>>} ELSE {<<e>> : e \in RecoverAdopts}) :
        /\ TrackerConstruct(active)
        /\ Observe("launch", RetNone, ConstructEmits(active))
        /\ IF active # <<>> THEN HistBegin ELSE UNCHANGED histVars
    /\ MonStart
    /\ UNCHANGED <<now, n_fails, dbVars, capVars, idleVars, idleHist>>

NextGate ==
    \/ \E t \in Tasks : OnTaskStartFromList(t, FALSE)
    \/ OnStart
    \/ OnStartFromTray
    \/ OnPause
    \/ OnIdleThreshold
    \/ OnStop(FALSE)
    \/ \E ok \in BOOLEAN : WindowCaptureTimerFires(ok)
    \/ \E r \in retries, ok \in BOOLEAN : WindowRetryFires(r, ok)
    \/ FocusChanges
    \/ WindowCrash
    \/ WindowLaunch
    \/ WiredAdvance

\* The window with screenshots enabled and a store that raises nothing, the
\* process ending and being started again at any time.
SpecGate == InitRecord /\ [][NextGate]_vars

\* C31: in the wired system with screenshots enabled the scheduler is running
\* whenever the tracker is RUNNING and is not running whenever the tracker is
\* PAUSED or STOPPED, also for a session adopted by crash recovery.
C31_TrackerGatesScheduler ==
    screenshots_enabled => (cap_is_running <=> state = "RUNNING")

----------------------------------------------------------------------------
\* Second boundary and interval boundary in one tick

\* C32: when a second boundary and the interval boundary fall in the same
\* tick of the sampler, the finished second is finalized first (counted as
\* active or as idle) and the interval is evaluated afterwards: the second is
\* part of the percentage of the closing interval and nothing of it is
\* carried into the next interval.
C32_SecondBeforeInterval ==
    [][(/\ interval_start_time # None
        /\ now - interval_start_time >= sample_interval * Res
        /\ now \div Res > last_second_check
        /\ op' = "on_check_timer") =>
          (CheckTimerFires(NoRace) =>
             /\ emitted' # <<>>
             /\ emitted'[1] = Ev("activity_updated",
                    Min(100 * sample_interval,
                        100 * (active_seconds_in_interval
                                 + (IF current_second_active THEN 1 ELSE 0))))
             /\ continuous_idle_seconds' =
                    continuous_idle_seconds + (IF current_second_active THEN 0 ELSE 1)
             /\ active_seconds_in_interval' = 0
             /\ ~current_second_active'
             /\ last_second_check' = now \div Res
             /\ interval_start_time' = now)]_vars

\* a tick has closed an interval in which every second had input, the last
\* second included, and has left nothing for the next interval
C32_Witness ==
    /\ op = "on_check_timer"
    /\ emitted # <<>>
    /\ emitted[1] = Ev("activity_updated", 100 * sample_interval)
    /\ continuous_idle_seconds = 0
    /\ active_seconds_in_interval = 0
    /\ ~current_second_active
    /\ interval_start_time = now
    /\ last_second_check = now \div Res

----------------------------------------------------------------------------
\* The idle-seconds event

NextIdleTick ==
    \/ \E t \in Tasks : OnTaskStartFromList(t, FALSE)
    \/ OnStop(FALSE)
    \/ RegisterActivity
    \/ CheckTimerFires(NoRace)
    \/ Advance(1, MaxTimeOps)

\* The window with the sampler hooked to the input: tasks started and
\* stopped, input arriving between the ticks of the sampler.
SpecIdleTick == InitSampler /\ [][NextIdleTick]_vars

IdleDetectedEvents(evs) == {i \in DOMAIN evs : evs[i].sig = "idle_detected"}

\* C33: a tick of the sampler emits idle_detected exactly once, carrying the
\* just-incremented idle counter, when it finalizes a second that had no
\* input; it emits none when it finalizes an active second or no second at all.
C33_IdleEventPerIdleSecond ==
    [][CheckTimerFires(NoRace) =>
          IF now \div Res > last_second_check /\ ~current_second_active
          THEN /\ Cardinality(IdleDetectedEvents(emitted')) = 1
               /\ \A i \in IdleDetectedEvents(emitted') :
                     emitted'[i].arg = continuous_idle_seconds + 1
          ELSE IdleDetectedEvents(emitted') = {}]_vars

----------------------------------------------------------------------------
\* The idle detector disabled and enabled

\* is_enabled setter with no reset of the flags
IdleSetEnabled_KeepsFlags(value) ==
    /\ is_enabled' = value
    /\ UNCHANGED <<threshold_seconds, is_idle, was_notified>>

\* is_enabled setter: "if not value: self._is_idle = False; self._was_notified = False"
IdleSetEnabled(value) ==
    /\ is_enabled' = value
    /\ is_idle' = IF value THEN is_idle ELSE FALSE
    /\ was_notified' = IF value THEN was_notified ELSE FALSE
    /\ UNCHANGED threshold_seconds

\* idle_detector.is_enabled = value
SetEnabled(value) ==
    /\ IdleSetEnabled(value)
    /\ ObserveArg("set_enabled", IF value THEN 1 ELSE 0, RetNone, <<>>)
    /\ UNCHANGED idleHist
    /\ IdleOnly

NextIdleEnable ==
    \/ \E n \in IdleInputs : OnIdleDetected(n)
    \/ \E v \in BOOLEAN : SetEnabled(v)

\* The idle detector fed any sequence of idle-second reports, disabled and
\* enabled at any time.
SpecIdleEnable == InitIdleSpec /\ [][NextIdleEnable]_vars

\* C34: while the detector is disabled on_idle_detected(n) changes nothing and
\* emits nothing for every n; disabling resets is_idle and the notified flag
\* without emitting activity_resumed, so that after enabling again a value at
\* or above the threshold fires idle_threshold_reached again.
C34_DisabledDetector ==
    /\ [](~is_enabled => ~is_idle /\ ~was_notified)
    /\ [][/\ \A n \in IdleInputs :
               (OnIdleDetected(n) /\ ~is_enabled) =>
                   UNCHANGED idleVars /\ emitted' = <<>>
          /\ SetEnabled(FALSE) =>
               ~is_enabled' /\ ~is_idle' /\ ~was_notified' /\ emitted' = <<>>
          /\ (SetEnabled(TRUE) /\ ~is_enabled) =>
               is_enabled' /\ ~is_idle' /\ ~was_notified'
          /\ \A n \in IdleInputs :
               (OnIdleDetected(n) /\ is_enabled /\ op = "set_enabled"
                    /\ ~was_notified /\ n >= threshold_seconds) =>
                   /\ emitted' = <<Ev("idle_threshold_reached", 0)>>
                   /\ is_idle'
                   /\ was_notified']_vars

\* the threshold has fired a second time in one idle episode, the detector
\* having been disabled and enabled in between
C34_Witness ==
    /\ op = "on_idle_detected"
    /\ emitted = <<Ev("idle_threshold_reached", 0)>>
    /\ arg >= threshold_seconds
    /\ ep_fired = 2

----------------------------------------------------------------------------
\* Activity recorded with the fallback sampler

\* the Sessions a stop() has finalized
FinalizedSessions == {e \in time_entries : e.end_time # None /\ ~e.is_manual}

\* C35: with the fallback sampler in use (input hooks unavailable) the mean
\* activity of every finalized Session and the activity recorded with every
\* screenshot are 100 %, the constant the fallback reports.
C35_FallbackRecords100 ==
    ~pynput_available =>
        /\ \A e \in FinalizedSessions :
              e.activity_percentage[1] = 100 * e.activity_percentage[2]
        /\ \A s \in screenshots : s.activity_percentage = Pct(100)

----------------------------------------------------------------------------
\* Input racing the tick of the sampler

\* C36: under every interleaving of an input callback with the tick of the
\* sampler the input is not lost: when the tick is done the idle counter is 0
\* (what is emitted afterwards cannot exceed the seconds since the input), and
\* the input either has been counted as an active second by this tick or is
\* still flagged for the next one.
C36_InputNeverLost ==
    [][op' = "on_check_timer" =>
        \A race \in Races :
            CheckTimerFires(race) =>
                /\ continuous_idle_seconds' = 0
                /\ \/ current_second_active'
                   \/ active_seconds_in_interval' = active_seconds_in_interval + 1
                   \/ /\ IntervalComplete
                      /\ emitted'[1] = Ev("activity_updated",
                                          MonPercentage(active_seconds_in_interval + 1))]_vars

----------------------------------------------------------------------------
\* The timers of the scheduler

\* the timers of the scheduler that are armed
ArmedTimers == Cardinality(retries) + (IF capture_timer # None THEN 1 ELSE 0)

\* C37: the screenshot scheduler has at most one timer armed at every moment:
\* the interval timer and a one-shot retry are never armed together and two
\* one-shot retries are never pending together, over every sequence of
\* start/stop, interval fires and retries.
C37_AtMostOneTimer == ArmedTimers <= 1

----------------------------------------------------------------------------
\* The tracker after a failed stop()

\* C38: a stop() that fails at the persistence write leaves the tracker as it
\* was before the call: state, pause timestamp, accumulated paused duration
\* and the running tick timer (so that a later resume() or a repeated stop()
\* accounts the current pause exactly once).
C38_FailedStopChangesNothing ==
    [][(state # "STOPPED" /\ Stop(TRUE)) =>
          /\ state' = state
          /\ pause_time' = pause_time
          /\ paused_duration' = paused_duration
          /\ timer' = timer]_vars

----------------------------------------------------------------------------
\* The interval behind a sample

\* the user presses the buttons in the first seconds, then an interval of the
\* sampler runs to its end
UserActs == now <= MaxUserAt

NextMeasure ==
    \/ UserActs /\ \E t \in Tasks : OnTaskStartFromList(t, FALSE)
    \/ UserActs /\ OnPause
    \/ UserActs /\ OnStart
    \/ UserActs /\ OnStop(FALSE)
    \/ CheckTimerFires(NoRace)
    \/ Advance(IF UserActs THEN 1 ELSE Res, sample_interval * Res + MaxUserAt + Res)

\* The window with the sampler hooked to the input and a store that raises
\* nothing, over one measurement interval.
SpecMeasure == InitSampler /\ [][NextMeasure]_vars

\* C39: every activity sample recorded into a session measures only time in
\* which the session was RUNNING: the interval that produced it does not
\* begin before the session and holds no paused second.  (A session RUNNING
\* over the whole interval has paused, in all, no longer than the time from
\* its start to the start of the interval.)
C39_SampleMeasuresRunningTime ==
    [][(op' = "on_check_timer" /\ Len(activity_samples') > Len(activity_samples)) =>
          /\ interval_start_time >= start_time
          /\ paused_duration * Res <= interval_start_time - start_time]_vars

====
